---- MODULE Spec2Model ----
(***************************************************************************)
(* A model of the rlog delivery pipeline: the BufferedSink (bounded        *)
(* channel, one worker goroutine, Flush/Close sentinels) and the           *)
(* FileWriter (lazy open, size counter, rotation of numbered backups).     *)
(*                                                                         *)
(* SpecBuf  : producers calling Log/Flush/Close on one BufferedSink whose  *)
(*            downstream sink records the calls it receives.               *)
(* SpecFile : one goroutine calling Log/Flush/Close on one FileWriter over *)
(*            a small file system whose open and rename calls may fail.    *)
(* SpecFmt  : goroutines calling Debugf..Errorf, Log, Flush and Close on   *)
(*            one LogFormatter whose sink is a ConsoleWriter.              *)
(* SpecGlob : goroutines calling the package-level API (Debugf..Fatalf,    *)
(*            IsDebugEnabled, Enable*, Close) on the default logger.       *)
(* SpecBufAny   : SpecBuf with the producers' levels drawn from the whole   *)
(*            integer range the sentinels live in.                         *)
(* SpecMulti    : one goroutine calling IsEnabled, Log, Flush and Close on *)
(*            a MultiWriter over two children.                             *)
(* SpecTwoQueue : the Logger with an input queue and a console queue, its  *)
(*            input worker, its console goroutine and pooled buffers.      *)
(* SpecOldLogger : the original Logger of logger.go behind its             *)
(*            package-level API (Info, Error, Close).                      *)
(* SpecChange   : goroutines calling ChangeDefaults concurrently.          *)
(* SpecPipeline : producers calling a LogFormatter over a BufferedSink     *)
(*            over a FileWriter; SpecPipelineFair adds fair scheduling.    *)
(***************************************************************************)
EXTENDS Integers, Sequences, FiniteSets

\* ------------------------------------------------------------------------
\* Levels (the constants of the package)
\* ------------------------------------------------------------------------
closeLevel == 0 - 2
flushLevel == 0 - 1
Debug == 0
Info == 1
Audit == 2
Warn == 3
Error == 4

\* The severities a record carries (Debugf .. Errorf).
RecordLevels == Debug..Error

\* The severities the producers of the model log at.
LoggedLevels == {Info, Error}

\* The severity of the records the FileWriter model is given (every level
\* name has the same length, so the level changes nothing in a file).
FileLevels == {Info}

\* ------------------------------------------------------------------------
\* Bounds of the BufferedSink model
\* ------------------------------------------------------------------------
\* size argument of NewBufferedSink: capacity of the channel
QueueSize == 2
\* number of producer goroutines
NumProducers == 2
\* total number of Log/Flush/Close calls made by the producers
MaxCalls == 4
\* number of ticks the ticker delivers
MaxTicks == 1

Producers == 1..NumProducers

VARIABLES
    \* BufferedSink
    queue,      \* s.queue: the entries buffered in the channel, oldest first
    wg,         \* s.wg: the WaitGroup counter (1 while the worker runs)
    wpc,        \* the worker goroutine: "select", "handle" or "done"
    line,       \* the worker's local variable line (the entry it received)
    acked,      \* the ack channels that have been closed
    ticks,      \* ticks delivered by the ticker so far
    down,       \* the calls the downstream sink has received, in order
    pc,         \* per producer: the call it is inside and where
    arg,        \* per producer: the entry its call is sending
    \* history of the calls
    nextId,     \* the next fresh record / ack identity
    ncalls,     \* calls made so far
    enq,        \* every entry ever sent to the channel, in order
    sent,       \* per producer: the records it passed to Log, in order
    flushSnap,  \* per producer: Len(enq) when its Flush was invoked
    closeSnap,  \* Len(enq) when Close was first invoked, -1 before
    closeRet,   \* TRUE once a Close call has returned
    afterClose, \* per producer: its call was invoked after a Close returned
    \* FileWriter
    fp,         \* self.fp is non-nil
    fileWriter, \* self.fileWriter is non-nil
    fileSize,   \* self.fileSize
    wbuf,       \* the lines held in the bufio.Writer
    files,      \* the log files on disk: number -> lines, or NoFile
    nlogs,      \* FileWriter calls made so far
    last,       \* what the last FileWriter call did
    hist,       \* what has happened to the FileWriter so far
    \* LogFormatter over a ConsoleWriter
    mut,        \* self.mut: 0 when free, else the goroutine holding it
    fpc,        \* per caller: where it is inside its LogFormatter call
    fcall,      \* per caller: the call it is making (id, via, level, now)
    clock,      \* the value the next time.Now() returns
    minLevel,   \* ConsoleWriter.minLevel
    console,    \* the lines printed on STDOUT, in order
    destLog,    \* the dest.Log calls the ConsoleWriter received, in order
    answers,    \* the results dest.IsEnabled has returned, with their level
    skipped,    \* the format calls that returned because the level was off
    fcalls,     \* LogFormatter calls made so far
    \* the default logger of the package
    gDefaultLogger,      \* the logger instance the package variable points to
    gDefaultLoggerGuard, \* 0 when free, else the goroutine holding it
    loggers,    \* per instance: sink kind, mutex, channel, worker, file, Close calls
    nloggers,   \* logger instances created so far
    gpc,        \* per goroutine: where it is inside its call of the global API
    gop,        \* per goroutine: the call it is making and the logger it got
    gcalls,     \* calls of the global API made so far
    exited,     \* 0 while the process runs, else the goroutine that called os.Exit
    gshut,      \* the last replacement of the default logger was a Close
    debugAnswers, \* the results IsDebugEnabled has returned, with their logger
    \* MultiWriter
    first,      \* self.first: the first child sink
    second,     \* self.second: the second child sink
    mpc,        \* where the caller is inside its MultiWriter call
    mop,        \* the MultiWriter call in progress
    childLog,   \* the calls the two children have received, in order
    manswers,   \* the results MultiWriter.IsEnabled has returned
    mcalls,     \* MultiWriter calls made so far
    \* the two-queue Logger (pooled message buffers)
    inputQueue,          \* l.inputQueue: the lines buffered, oldest first
    consoleQueue,        \* l.consoleQueue: the lines buffered, oldest first
    LowerLevelToFile,    \* l.options.LowerLevelToFile
    LowerLevelToConsole, \* l.options.LowerLevelToConsole
    bufs,       \* per message buffer: the messages written into it since its Reset
    pool,       \* bufPool: the buffers put back
    nbufs,      \* buffers allocated so far
    ipc,        \* the input worker: "select", "handoff", "evict", "after", "done"
    iline,      \* the input worker's local variable line
    nevict,     \* entries evicted for the line being handed off
    cpc,        \* the console goroutine: "none", "range" or "done"
    shown,      \* what the console goroutine has printed, in order
    fileLines,  \* what the input worker has written to the file, in order
    lwg,        \* l.wg: the WaitGroup counter
    lpc,        \* the goroutine calling Close: "idle", "wait" or "closed"
    dropped,    \* the lines evicted from the console queue, in order
    lcalls,     \* lines logged so far
    lfp,        \* l.fp is non-nil
    sentLines,  \* every line ever sent on inputQueue, in order
    fileDropped, \* the lines newFileLine returned on without writing them
    \* the original Logger (logger.go) behind the package-level API
    opt,        \* the Options passed to New, as New leaves them
    oDefault,   \* gDefaultLogger is non-nil
    oInput,     \* l.inputQueue: the lines buffered, oldest first
    oInputNil,  \* l.inputQueue is nil
    oConsole,   \* l.consoleQueue: the lines buffered, oldest first
    oConsoleNil, \* l.consoleQueue is nil
    owpc,       \* the input worker: "range", "handoff", "evict", "file", "done"
    oline,      \* the input worker's local variable line
    ocpc,       \* the console worker: "none", "range" or "done"
    owg,        \* l.wg: the WaitGroup counter
    apc,        \* the calling goroutine: "idle", "send", "closeSend", "closeWait"
    acall,      \* the line the calling goroutine is sending
    panicked,   \* the process has died of a nil pointer dereference
    oFile,      \* the lines written to the log file, in order
    oShown,     \* the lines printed on the console, in order
    oSent,      \* every line ever sent on inputQueue, in order
    oClosed,    \* the package-level Close has returned
    oLate,      \* logging calls invoked after the package-level Close returned
    ocalls,     \* calls of the package-level API made so far
    \* ChangeDefaults and the default logger of multiwriter.go
    gDefaultOptions, \* the package variable gDefaultOptions
    dOptions,   \* gDefaultLogger.options of the installed default logger
    dpc,        \* per goroutine: where it is inside ChangeDefaults
    dopt,       \* per goroutine: the argument opt of its call
    dnewOpts,   \* per goroutine: its local variable newOpts
    dbuilt,     \* per goroutine: the options of the Logger its New returned
    dreplaced,  \* default loggers closed and replaced so far
    dcalls,     \* ChangeDefaults calls made so far
    \* the pipeline LogFormatter -> BufferedSink -> FileWriter
    ppc,        \* per producer: where it is inside its LogFormatter call
    pop,        \* per producer: the LogFormatter call it is making
    pclosing,   \* LogFormatter.Close has been called
    pcalls      \* LogFormatter calls made so far

bufVars == <<queue, wg, wpc, line, acked, ticks, down, pc, arg,
             nextId, ncalls, enq, sent, flushSnap, closeSnap, closeRet,
             afterClose>>
fileVars == <<fp, fileWriter, fileSize, wbuf, files, nlogs, last, hist>>
fmtVars == <<mut, fpc, fcall, clock, minLevel, console, destLog, answers,
             skipped, fcalls>>
globVars == <<gDefaultLogger, gDefaultLoggerGuard, loggers, nloggers, gpc, gop,
              gcalls, exited, gshut, debugAnswers>>
multiVars == <<first, second, mpc, mop, childLog, manswers, mcalls>>
tqVars == <<inputQueue, consoleQueue, LowerLevelToFile, LowerLevelToConsole, bufs,
            pool, nbufs, ipc, iline, nevict, cpc, shown, fileLines, lwg, lpc,
            dropped, lcalls, lfp, sentLines, fileDropped>>
oldVars == <<opt, oDefault, oInput, oInputNil, oConsole, oConsoleNil, owpc, oline,
             ocpc, owg, apc, acall, panicked, oFile, oShown, oSent, oClosed, oLate,
             ocalls>>
defVars == <<gDefaultOptions, dOptions, dpc, dopt, dnewOpts, dbuilt, dreplaced, dcalls>>
pipeVars == <<ppc, pop, pclosing, pcalls>>
vars == <<bufVars, fileVars, fmtVars, globVars, multiVars, tqVars, oldVars, defVars, pipeVars>>

\* ------------------------------------------------------------------------
\* BufferedSink
\* ------------------------------------------------------------------------
\* bufEntry{when, level, message, ack}; message 0 is the empty message of a
\* sentinel, ack 0 is a nil channel. The timestamp plays no part here.
bufEntry(level, message, ack) == [level |-> level, message |-> message, ack |-> ack]

NoEntry == bufEntry(closeLevel - 1, 0, 0)

DownLog(e) == [op |-> "Log", level |-> e.level, message |-> e.message]
DownFlush == [op |-> "Flush", level |-> 0, message |-> 0]
DownClose == [op |-> "Close", level |-> 0, message |-> 0]

\* NewBufferedSink: an empty channel, wg.Add(1), the worker started.
InitSink ==
    /\ queue = <<>>
    /\ wg = 1
    /\ wpc = "select"
    /\ line = NoEntry
    /\ acked = {}
    /\ ticks = 0
    /\ down = <<>>
    /\ pc = [p \in Producers |-> "idle"]
    /\ arg = [p \in Producers |-> NoEntry]
    /\ nextId = 1
    /\ ncalls = 0
    /\ enq = <<>>
    /\ sent = [p \in Producers |-> <<>>]
    /\ flushSnap = [p \in Producers |-> 0]
    /\ closeSnap = 0 - 1
    /\ closeRet = FALSE
    /\ afterClose = [p \in Producers |-> FALSE]

\* A send on the channel can complete when the buffer has room.
CanSend == Len(queue) < QueueSize

\* A Send that makes room by evicting the oldest buffered entry.
SendDropOldest(e) ==
    /\ queue' = IF CanSend THEN Append(queue, e) ELSE Append(Tail(queue), e)
    /\ enq' = Append(enq, e)

\* self.queue <- e
Send(e) ==
    /\ CanSend
    /\ queue' = Append(queue, e)
    /\ enq' = Append(enq, e)

\* A producer enters BufferedSink.Log(when, level, message).
CallLog(p, level) ==
    /\ pc[p] = "idle"
    /\ ncalls < MaxCalls
    /\ ncalls' = ncalls + 1
    /\ pc' = [pc EXCEPT ![p] = "Log"]
    /\ arg' = [arg EXCEPT ![p] = bufEntry(level, nextId, 0)]
    /\ sent' = [sent EXCEPT ![p] = Append(@, nextId)]
    /\ nextId' = nextId + 1
    /\ afterClose' = [afterClose EXCEPT ![p] = closeRet]
    /\ UNCHANGED <<queue, wg, wpc, line, acked, ticks, down, enq,
                   flushSnap, closeSnap, closeRet>>

\* A Log that calls the downstream sink itself instead of sending.
LogSendWriteThrough(p) ==
    /\ pc[p] = "Log"
    /\ down' = Append(down, DownLog(arg[p]))
    /\ enq' = Append(enq, arg[p])
    /\ pc' = [pc EXCEPT ![p] = "idle"]
    /\ UNCHANGED <<queue, wg, wpc, line, acked, ticks, arg, nextId, ncalls,
                   sent, flushSnap, closeSnap, closeRet, afterClose>>

\* BufferedSink.Log: the send completes and Log returns.
LogSend(p) ==
    /\ pc[p] = "Log"
    /\ Send(arg[p])
    /\ pc' = [pc EXCEPT ![p] = "idle"]
    /\ UNCHANGED <<wg, wpc, line, acked, ticks, down, arg, nextId, ncalls,
                   sent, flushSnap, closeSnap, closeRet,
                   afterClose>>

\* A producer enters BufferedSink.Flush(): ack := make(chan struct{}).
CallFlush(p) ==
    /\ pc[p] = "idle"
    /\ ncalls < MaxCalls
    /\ ncalls' = ncalls + 1
    /\ pc' = [pc EXCEPT ![p] = "FlushSend"]
    /\ arg' = [arg EXCEPT ![p] = bufEntry(flushLevel, 0, nextId)]
    /\ nextId' = nextId + 1
    /\ flushSnap' = [flushSnap EXCEPT ![p] = Len(enq)]
    /\ afterClose' = [afterClose EXCEPT ![p] = closeRet]
    /\ UNCHANGED <<queue, wg, wpc, line, acked, ticks, down, enq, sent,
                   closeSnap, closeRet>>

\* BufferedSink.Flush: self.queue <- bufEntry{level: flushLevel, ack: ack}
FlushSend(p) ==
    /\ pc[p] = "FlushSend"
    /\ Send(arg[p])
    /\ pc' = [pc EXCEPT ![p] = "FlushWait"]
    /\ UNCHANGED <<wg, wpc, line, acked, ticks, down, arg, nextId, ncalls,
                   sent, flushSnap, closeSnap, closeRet,
                   afterClose>>

\* A receive on ack that does not wait for the channel to be closed.
AckReadyAtOnce(p) == arg[p].ack # 0

\* <-ack can complete once the channel has been closed.
AckReady(p) == arg[p].ack \in acked

\* BufferedSink.Flush: <-ack, and Flush returns.
FlushReturn(p) ==
    /\ pc[p] = "FlushWait"
    /\ AckReady(p)
    /\ pc' = [pc EXCEPT ![p] = "idle"]
    /\ UNCHANGED <<queue, wg, wpc, line, acked, ticks, down, arg, nextId,
                   ncalls, enq, sent, flushSnap, closeSnap, closeRet,
                   afterClose>>

\* A producer enters BufferedSink.Close().
CallClose(p) ==
    /\ pc[p] = "idle"
    /\ ncalls < MaxCalls
    /\ ncalls' = ncalls + 1
    /\ pc' = [pc EXCEPT ![p] = "CloseSend"]
    /\ arg' = [arg EXCEPT ![p] = bufEntry(closeLevel, 0, 0)]
    /\ closeSnap' = IF closeSnap < 0 THEN Len(enq) ELSE closeSnap
    /\ afterClose' = [afterClose EXCEPT ![p] = closeRet]
    /\ UNCHANGED <<queue, wg, wpc, line, acked, ticks, down, nextId, enq,
                   sent, flushSnap, closeRet>>

\* BufferedSink.Close: self.queue <- bufEntry{level: closeLevel}
CloseSend(p) ==
    /\ pc[p] = "CloseSend"
    /\ Send(arg[p])
    /\ pc' = [pc EXCEPT ![p] = "CloseWait"]
    /\ UNCHANGED <<wg, wpc, line, acked, ticks, down, arg, nextId, ncalls,
                   sent, flushSnap, closeSnap, closeRet,
                   afterClose>>

\* A Wait that does not wait for the worker.
WaitReadyAtOnce == wg >= 0

\* self.wg.Wait() can complete when the counter is zero.
WaitReady == wg = 0

\* BufferedSink.Close: self.wg.Wait(), and Close returns.
CloseReturn(p) ==
    /\ pc[p] = "CloseWait"
    /\ WaitReady
    /\ pc' = [pc EXCEPT ![p] = "idle"]
    /\ closeRet' = TRUE
    /\ UNCHANGED <<queue, wg, wpc, line, acked, ticks, down, arg, nextId,
                   ncalls, enq, sent, flushSnap, closeSnap, afterClose>>

\* The worker is in its select statement.
WorkerSelecting == wpc = "select"

\* A receive that takes the newest entry of the channel instead of the oldest.
WorkerRecvNewest ==
    /\ WorkerSelecting
    /\ queue # <<>>
    /\ line' = queue[Len(queue)]
    /\ queue' = SubSeq(queue, 1, Len(queue) - 1)
    /\ wpc' = "handle"
    /\ UNCHANGED <<wg, acked, ticks, down, pc, arg, nextId, ncalls, enq,
                   sent, flushSnap, closeSnap, closeRet, afterClose>>

\* case line := <-s.queue
WorkerRecv ==
    /\ WorkerSelecting
    /\ queue # <<>>
    /\ line' = Head(queue)
    /\ queue' = Tail(queue)
    /\ wpc' = "handle"
    /\ UNCHANGED <<wg, acked, ticks, down, pc, arg, nextId, ncalls, enq,
                   sent, flushSnap, closeSnap, closeRet,
                   afterClose>>

\* A ticker that keeps flushing after the worker has returned.
WorkerTickUnstopped ==
    /\ wpc # "handle"
    /\ ticks < MaxTicks
    /\ ticks' = ticks + 1
    /\ down' = Append(down, DownFlush)
    /\ UNCHANGED <<queue, wg, wpc, line, acked, pc, arg, nextId, ncalls,
                   enq, sent, flushSnap, closeSnap, closeRet, afterClose>>

\* case <-ticker.C: s.downstream.Flush()
WorkerTick ==
    /\ WorkerSelecting
    /\ ticks < MaxTicks
    /\ ticks' = ticks + 1
    /\ down' = Append(down, DownFlush)
    /\ UNCHANGED <<queue, wg, wpc, line, acked, pc, arg, nextId, ncalls,
                   enq, sent, flushSnap, closeSnap, closeRet,
                   afterClose>>

\* if line.level == closeLevel { s.downstream.Close(); return }
\* with the deferred ticker.Stop() and s.wg.Done()
WorkerClose ==
    /\ wpc = "handle"
    /\ line.level = closeLevel
    /\ down' = Append(down, DownClose)
    /\ wpc' = "done"
    /\ wg' = wg - 1
    /\ UNCHANGED <<queue, line, acked, ticks, pc, arg, nextId, ncalls, enq,
                   sent, flushSnap, closeSnap, closeRet,
                   afterClose>>

\* A flush that closes the ack channel of every waiting Flush call.
WorkerFlushAckAll ==
    /\ wpc = "handle"
    /\ line.level # closeLevel
    /\ line.level = flushLevel
    /\ down' = Append(down, DownFlush)
    /\ acked' = acked \cup {arg[p].ack : p \in {q \in Producers : pc[q] = "FlushWait"}}
    /\ wpc' = "select"
    /\ UNCHANGED <<queue, wg, line, ticks, pc, arg, nextId, ncalls, enq,
                   sent, flushSnap, closeSnap, closeRet,
                   afterClose>>

\* if line.level == flushLevel { s.downstream.Flush(); close(line.ack); continue }
WorkerFlush ==
    /\ wpc = "handle"
    /\ line.level # closeLevel
    /\ line.level = flushLevel
    /\ down' = Append(down, DownFlush)
    /\ acked' = IF line.ack # 0 THEN acked \cup {line.ack} ELSE acked
    /\ wpc' = "select"
    /\ UNCHANGED <<queue, wg, line, ticks, pc, arg, nextId, ncalls, enq,
                   sent, flushSnap, closeSnap, closeRet,
                   afterClose>>

\* s.downstream.Log(line.when, line.level, line.message)
WorkerLog ==
    /\ wpc = "handle"
    /\ line.level # closeLevel
    /\ line.level # flushLevel
    /\ down' = Append(down, DownLog(line))
    /\ wpc' = "select"
    /\ UNCHANGED <<queue, wg, line, acked, ticks, pc, arg, nextId, ncalls,
                   enq, sent, flushSnap, closeSnap, closeRet,
                   afterClose>>

\* ------------------------------------------------------------------------
\* FileWriter
\* ------------------------------------------------------------------------
\* Bounds of the FileWriter model
\* maxSize argument of NewFileWriter
MaxFileSize == 100
\* len(filename)
FilenameLen == 3
\* number of digits of os.Getpid()
PidDigits == 1
\* number of Log/Flush/Close calls made on the FileWriter
MaxFileCalls == 3

\* maxLogFiles: 3 in NewFileWriter
maxLogFiles == 3
\* the overhead the rotation test adds to len(message)
RotateOverhead == 33
\* "%04d-%02d-%02d %02d:%02d:%02d.%06d" renders 4+1+2+1+2+1+2+1+2+1+2+1+6 bytes
TimestampLen == 26
\* levelNames: every name is 5 bytes long
levelNameLen == [level \in RecordLevels |-> 5]
\* len("Start ") and len(" pid: ")
StartLen == 6
PidLen == 6

\* len(message) of the records the model logs: short ones around the rotation
\* threshold of a fresh file, and one that no file of MaxFileSize bytes holds.
MessageLens == {16, 17, 18, MaxFileSize - 30}

\* The file numbers of the model's directory: prefix.log (0), the backups
\* prefix.1.log .. prefix.(maxLogFiles-1).log, and one number beyond them.
FileNums == 0..maxLogFiles

\* One line of a file: what wrote it and the bytes it takes.
FileLine(kind, id, n) == [kind |-> kind, id |-> id, n |-> n]

\* The content of a file that does not exist.
NoFile == <<FileLine("none", 0, 0)>>

RECURSIVE SizeOf(_)
\* fi.Size(): the bytes of a file's lines
SizeOf(lines) == IF lines = <<>> THEN 0 ELSE Head(lines).n + SizeOf(Tail(lines))

\* The FileWriter's fields together with the directory they act on.
FwState == [fp |-> fp, fileWriter |-> fileWriter, fileSize |-> fileSize,
            wbuf |-> wbuf, files |-> files]

\* n of fmt.Fprintf(self.fileWriter, "%04d-..%06d %s %s\n", ..., prefix, message)
FormattedLen(level, len) == TimestampLen + 1 + levelNameLen[level] + 1 + len + 1

\* len(fmt.Sprintf("Start %s pid: %v", self.filename, os.Getpid()))
StartMessageLen == StartLen + FilenameLen + PidLen + PidDigits

\* FileWriter.writeFileLine
writeFileLine(st, kind, id, level, len) ==
    IF st.fileWriter
    THEN [st EXCEPT !.wbuf = Append(@, FileLine(kind, id, FormattedLen(level, len))),
                    !.fileSize = @ + FormattedLen(level, len)]
    ELSE st

\* self.fileWriter.Flush(): the buffered lines reach the open file
flushWriter(st) ==
    IF st.fileWriter
    THEN [st EXCEPT !.files[0] = IF @ = NoFile THEN st.wbuf ELSE @ \o st.wbuf,
                    !.wbuf = <<>>]
    ELSE st

\* A lazy open that truncates the file it opens.
openedFileTruncating(st, id, statOk) ==
    LET opened == [st EXCEPT !.fp = TRUE,
                             !.fileWriter = TRUE,
                             !.wbuf = <<>>,
                             !.files[0] = <<>>,
                             !.fileSize = 0]
    IN  writeFileLine(opened, "start", id, Audit, StartMessageLen)

\* The lazy open of Log when os.OpenFile succeeded: a new bufio.Writer,
\* fileSize from Stat (0 when Stat fails), and the "Start" line at Audit level.
openedFile(st, id, statOk) ==
    LET created == IF st.files[0] = NoFile THEN <<>> ELSE st.files[0]
        opened == [st EXCEPT !.fp = TRUE,
                             !.fileWriter = TRUE,
                             !.wbuf = <<>>,
                             !.files[0] = created,
                             !.fileSize = IF statOk THEN SizeOf(created) ELSE 0]
    IN  writeFileLine(opened, "start", id, Audit, StartMessageLen)

\* A lazy open that zeroes the size counter when os.OpenFile fails.
openAppendZeroing(st, id, openOk, statOk) ==
    IF ~openOk
    THEN [st EXCEPT !.fp = FALSE, !.fileSize = 0]
    ELSE openedFile(st, id, statOk)

\* The lazy open of Log: os.OpenFile(O_WRONLY|O_CREATE|O_APPEND); when it
\* fails fp stays nil and nothing else changes.
openAppend(st, id, openOk, statOk) ==
    IF ~openOk
    THEN [st EXCEPT !.fp = FALSE]
    ELSE openedFile(st, id, statOk)

\* os.Rename(self.logFileName(from), self.logFileName(to))
Rename(fs, from, to, ok) ==
    IF ok /\ fs[from] # NoFile
    THEN [fs EXCEPT ![to] = fs[from], ![from] = NoFile]
    ELSE fs

RECURSIVE renameBackups(_, _, _)
\* for i := maxLogFiles - 1; i > 0; i-- { os.Rename(logFileName(i-1), logFileName(i)) }
renameBackups(fs, i, renOk) ==
    IF i > 0
    THEN renameBackups(Rename(fs, i - 1, i, renOk[i]), i - 1, renOk)
    ELSE fs

\* The rotation test of Log.
mustRotate(st, len) == st.fileSize + len + RotateOverhead > MaxFileSize

\* A rotation that closes the file without flushing the buffered writer.
rotateFilesUnflushed(st, renOk) ==
    [st EXCEPT !.fp = FALSE,
               !.files = renameBackups(st.files, maxLogFiles - 1, renOk)]

\* The rotation branch of Log up to the renames: Flush, Close, the renames.
rotateFiles(st, renOk) ==
    LET flushed == flushWriter(st)
    IN  [flushed EXCEPT !.fp = FALSE,
                        !.files = renameBackups(flushed.files, maxLogFiles - 1, renOk)]

\* The rotation branch of Log after the renames: fileSize = 0 and
\* os.OpenFile(O_WRONLY|O_CREATE|O_TRUNC), then fileWriter.Reset(fp).
reopenTruncated(st, reopenOk) ==
    IF reopenOk
    THEN [st EXCEPT !.fileSize = 0, !.fp = TRUE, !.files[0] = <<>>, !.wbuf = <<>>]
    ELSE [st EXCEPT !.fileSize = 0, !.fp = FALSE, !.fileWriter = FALSE, !.wbuf = <<>>]

\* The inputs of one rename loop: which of the renames succeed.
RenameResults == [1..(maxLogFiles - 1) -> BOOLEAN]

\* What a call that is not a Log leaves in last.
NotALog(op) ==
    [op |-> op, len |-> 0, level |-> Debug, openFailed |-> FALSE, opened |-> FALSE,
     sizeAtTest |-> 0, rotated |-> FALSE, renameFailed |-> FALSE, wrote |-> FALSE,
     before |-> <<>>, after |-> <<>>]

\* Nothing has happened to a new FileWriter: Close has not been called and no
\* reopen and no rename of a rotation has failed.
NoHistory == [closed |-> FALSE, reopenFailed |-> FALSE, renameFailed |-> FALSE]

\* NewFileWriter(filename, MaxFileSize) in a directory that may hold the
\* log files of earlier runs.
InitFileWriter ==
    /\ fp = FALSE
    /\ fileWriter = FALSE
    /\ fileSize = 0
    /\ wbuf = <<>>
    /\ \E f0 \in {NoFile, <<>>, <<FileLine("old", 0, MaxFileSize - 40)>>,
                  <<FileLine("old", 0, MaxFileSize + 20)>>},
          f1 \in {NoFile, <<FileLine("old", 1, 10)>>},
          f2 \in {NoFile, <<FileLine("old", 2, 10)>>} :
            files = [n \in FileNums |->
                        IF n = 0 THEN f0 ELSE IF n = 1 THEN f1
                        ELSE IF n = 2 THEN f2 ELSE NoFile]
    /\ nlogs = 0
    /\ last = NotALog("New")
    /\ hist = NoHistory

\* The FileWriter of the BufferedSink model: never called.
InitFileIdle ==
    /\ fp = FALSE
    /\ fileWriter = FALSE
    /\ fileSize = 0
    /\ wbuf = <<>>
    /\ files = [n \in FileNums |-> NoFile]
    /\ nlogs = 0
    /\ last = NotALog("New")
    /\ hist = NoHistory

\* FileWriter.Log(when, level, message), with the results of the system calls
\* it makes: the lazy open, its Stat, the renames and the reopen.
FileWriterLog(level, len, openOk, statOk, renOk, reopenOk) ==
    /\ nlogs' = nlogs + 1
    /\ \E lazy \in {~fp} :
       \* if self.fp == nil { open, or return }
       \E st1 \in {IF lazy THEN openAppend(FwState, nlogs + 1, openOk, statOk) ELSE FwState} :
       \E failed \in {lazy /\ ~st1.fp} :
       \* if self.fileSize+int64(len(message))+33 > self.maxFileSize { rotate, or return }
       \E rotate \in {~failed /\ mustRotate(st1, len)} :
       \E st2 \in {IF rotate THEN rotateFiles(st1, renOk) ELSE st1} :
       \E st3 \in {IF rotate THEN reopenTruncated(st2, reopenOk) ELSE st2} :
       \* self.writeFileLine(when, level, message)
       \* a rename of the rotation failed although its source file existed
       \E renFailed \in {rotate /\ \E i \in 1..(maxLogFiles - 1) :
                              flushWriter(st1).files[i - 1] # NoFile /\ ~renOk[i]} :
       \E write \in {~failed /\ st3.fp} :
       \E st4 \in {IF write THEN writeFileLine(st3, "rec", nlogs + 1, level, len) ELSE st3} :
           /\ fp' = st4.fp
           /\ fileWriter' = st4.fileWriter
           /\ fileSize' = st4.fileSize
           /\ wbuf' = st4.wbuf
           /\ files' = st4.files
           /\ last' = [op |-> "Log", len |-> len, level |-> level,
                       openFailed |-> failed, opened |-> lazy /\ ~failed,
                       sizeAtTest |-> st1.fileSize,
                       rotated |-> rotate, renameFailed |-> renFailed,
                       wrote |-> write /\ st3.fileWriter,
                       before |-> IF rotate THEN flushWriter(st1).files ELSE <<>>,
                       after |-> IF rotate THEN st3.files ELSE <<>>]
           /\ hist' = [hist EXCEPT !.reopenFailed = @ \/ (rotate /\ ~st3.fp),
                                   !.renameFailed = @ \/ renFailed]

\* One more FileWriter.Log call of the goroutine that owns the FileWriter.
FwLog(level, len, openOk, statOk, renOk, reopenOk) ==
    /\ nlogs < MaxFileCalls
    /\ FileWriterLog(level, len, openOk, statOk, renOk, reopenOk)

\* A Flush that opens the log file when the FileWriter is not open.
FileWriterFlushOpening ==
    /\ nlogs' = nlogs + 1
    /\ LET st == flushWriter(FwState)
       IN  /\ files' = IF fileWriter THEN st.files
                       ELSE [files EXCEPT ![0] = IF @ = NoFile THEN <<>> ELSE @]
           /\ wbuf' = st.wbuf
    /\ fp' = TRUE
    /\ fileWriter' = TRUE
    /\ last' = NotALog("Flush")
    /\ UNCHANGED <<fileSize, hist>>

\* FileWriter.Flush()
FileWriterFlush ==
    /\ nlogs' = nlogs + 1
    /\ LET st == flushWriter(FwState)
       IN  /\ files' = st.files
           /\ wbuf' = st.wbuf
    /\ last' = NotALog("Flush")
    /\ UNCHANGED <<fp, fileWriter, fileSize, hist>>

\* One more FileWriter.Flush call of the goroutine that owns the FileWriter.
FwFlush == nlogs < MaxFileCalls /\ FileWriterFlush

\* FileWriter.Close(): Flush, fp.Close(), fp = nil, fileWriter = nil
FileWriterClose ==
    /\ nlogs' = nlogs + 1
    /\ LET st == flushWriter(FwState)
       IN  /\ files' = st.files
           /\ wbuf' = st.wbuf
    /\ fp' = FALSE
    /\ fileWriter' = FALSE
    /\ last' = NotALog("Close")
    /\ hist' = [hist EXCEPT !.closed = TRUE]
    /\ UNCHANGED fileSize

\* One more FileWriter.Close call of the goroutine that owns the FileWriter.
FwClose == nlogs < MaxFileCalls /\ FileWriterClose

\* ------------------------------------------------------------------------
\* ConsoleWriter
\* ------------------------------------------------------------------------
\* ConsoleWriter.IsEnabled(level), mutated: the minimum level itself is off.
ConsoleIsEnabledAbove(level) == level > minLevel

\* ConsoleWriter.IsEnabled(level)
ConsoleIsEnabled(level) == level >= minLevel

\* ConsoleWriter.Log(when, level, message): the lines on STDOUT after it.
\* Close and Flush of a ConsoleWriter do nothing.
ConsoleLog(out, when, level, id) ==
    IF level < minLevel
    THEN out
    ELSE Append(out, [when |-> when, level |-> level, id |-> id])

\* ------------------------------------------------------------------------
\* LogFormatter
\* ------------------------------------------------------------------------
NumCallers == 2
MaxFmtCalls == 3

Callers == 1..NumCallers

\* A caller that is inside no call.
NoCall == [id |-> 0, via |-> "none", level |-> Debug, now |-> 0]

\* NewLogger(NewConsoleWriter(minLevel), showFileLine)
InitFormatter ==
    /\ mut = 0
    /\ fpc = [g \in Callers |-> "idle"]
    /\ fcall = [g \in Callers |-> NoCall]
    /\ clock = 0
    /\ minLevel \in RecordLevels
    /\ console = <<>>
    /\ destLog = <<>>
    /\ answers = {}
    /\ skipped = {}
    /\ fcalls = 0

\* The LogFormatter of the other models: never called.
InitFormatterIdle ==
    /\ mut = 0
    /\ fpc = [g \in Callers |-> "idle"]
    /\ fcall = [g \in Callers |-> NoCall]
    /\ clock = 0
    /\ minLevel = Debug
    /\ console = <<>>
    /\ destLog = <<>>
    /\ answers = {}
    /\ skipped = {}
    /\ fcalls = 0

\* Debugf .. Errorf: self.format(level, format, a...)
CallFormat(g, level) ==
    /\ fpc[g] = "idle"
    /\ fcalls < MaxFmtCalls
    /\ fcalls' = fcalls + 1
    /\ fcall' = [fcall EXCEPT ![g] =
                    [id |-> fcalls + 1, via |-> "format", level |-> level, now |-> 0]]
    /\ fpc' = [fpc EXCEPT ![g] = "enabled"]
    /\ UNCHANGED <<mut, clock, minLevel, console, destLog, answers, skipped>>

\* format, mutated: the level is not tested before formatting.
FormatIsEnabledSkipped(g) ==
    /\ fpc[g] = "enabled"
    /\ mut = 0
    /\ answers' = answers \cup
                    {[level |-> fcall[g].level, r |-> ConsoleIsEnabled(fcall[g].level)]}
    /\ fpc' = [fpc EXCEPT ![g] = "now"]
    /\ UNCHANGED <<mut, fcall, clock, minLevel, console, destLog, skipped, fcalls>>

\* format: if !self.IsEnabled(level) { return }, where IsEnabled takes the
\* mutex around dest.IsEnabled(level).
FormatIsEnabled(g) ==
    /\ fpc[g] = "enabled"
    /\ mut = 0
    /\ LET r == ConsoleIsEnabled(fcall[g].level)
       IN  /\ answers' = answers \cup {[level |-> fcall[g].level, r |-> r]}
           /\ fpc' = [fpc EXCEPT ![g] = IF r THEN "now" ELSE "idle"]
           /\ skipped' = IF r THEN skipped ELSE skipped \cup {fcall[g].id}
           /\ fcall' = [fcall EXCEPT ![g] = IF r THEN @ ELSE NoCall]
    /\ UNCHANGED <<mut, clock, minLevel, console, destLog, fcalls>>

\* format: now := time.Now(), then the message is formatted into buf.
FormatNow(g) ==
    /\ fpc[g] = "now"
    /\ fcall' = [fcall EXCEPT ![g].now = clock]
    /\ clock' = clock + 1
    /\ fpc' = [fpc EXCEPT ![g] = "lock"]
    /\ UNCHANGED <<mut, minLevel, console, destLog, answers, skipped, fcalls>>

\* LogFormatter.Log(when, level, message), called with the current time.
CallFmtLog(g, level) ==
    /\ fpc[g] = "idle"
    /\ fcalls < MaxFmtCalls
    /\ fcalls' = fcalls + 1
    /\ fcall' = [fcall EXCEPT ![g] =
                    [id |-> fcalls + 1, via |-> "Log", level |-> level, now |-> clock]]
    /\ clock' = clock + 1
    /\ fpc' = [fpc EXCEPT ![g] = "lock"]
    /\ UNCHANGED <<mut, minLevel, console, destLog, answers, skipped>>

\* self.mut.Lock() of format and of Log
FmtLock(g) ==
    /\ fpc[g] = "lock"
    /\ mut = 0
    /\ mut' = g
    /\ fpc' = [fpc EXCEPT ![g] = "log"]
    /\ UNCHANGED <<fcall, clock, minLevel, console, destLog, answers, skipped, fcalls>>

\* self.dest.Log(now, level, buf.String())
FmtDestLog(g) ==
    /\ fpc[g] = "log"
    /\ mut = g
    /\ destLog' = Append(destLog, fcall[g])
    /\ console' = ConsoleLog(console, fcall[g].now, fcall[g].level, fcall[g].id)
    /\ fpc' = [fpc EXCEPT ![g] = "unlock"]
    /\ UNCHANGED <<mut, fcall, clock, minLevel, answers, skipped, fcalls>>

\* self.mut.Unlock(), and the call returns.
FmtUnlock(g) ==
    /\ fpc[g] = "unlock"
    /\ mut = g
    /\ mut' = 0
    /\ fpc' = [fpc EXCEPT ![g] = "idle"]
    /\ fcall' = [fcall EXCEPT ![g] = NoCall]
    /\ UNCHANGED <<clock, minLevel, console, destLog, answers, skipped, fcalls>>

\* LogFormatter.Flush() and LogFormatter.Close(): the mutex is taken around
\* dest.Flush() or dest.Close(), which do nothing in a ConsoleWriter.
FmtFlushClose(g) ==
    /\ fpc[g] = "idle"
    /\ fcalls < MaxFmtCalls
    /\ mut = 0
    /\ fcalls' = fcalls + 1
    /\ UNCHANGED <<mut, fpc, fcall, clock, minLevel, console, destLog, answers, skipped>>

\* ------------------------------------------------------------------------
\* The default logger (GetDefaultLogger, Debugf .. Fatalf, Enable*, Close)
\* ------------------------------------------------------------------------
NumGoroutines == 2
MaxGCalls == 4

\* NewBufferedSink(100, ...): the capacity of a default logger's channel.
gQueueSize == 100

Goroutines == 1..NumGoroutines

\* Every replacement of the default logger creates one instance.
Loggers == 1..(MaxGCalls + 1)

GlobalOps == {"Logf", "IsDebugEnabled", "Fatalf", "Enable", "Close"}

\* NewLogger(sink, showFileLine) over a NopSink ("nop") or over a chain that
\* ends in NewBufferedSink(100, NewFileWriter(...)) ("file"): the mutex is
\* free, the channel is empty and the worker of a BufferedSink is running.
NewLogger(kind) ==
    [kind |-> kind, mut |-> 0, queue |-> <<>>, running |-> kind = "file",
     written |-> <<>>, closes |-> 0]

\* An instance that has not been created.
NoLogger == NewLogger("none")

\* A goroutine that is inside no call.
NoOp == [op |-> "none", rec |-> 0, l |-> 1, live |-> TRUE, shut |-> FALSE]

closeSentinel == [kind |-> "close", id |-> 0, op |-> "Close"]

\* var gDefaultLogger Logger = NewLogger(NopSink{}, false)
InitGlobal ==
    /\ gDefaultLogger = 1
    /\ gDefaultLoggerGuard = 0
    /\ loggers = [i \in Loggers |-> IF i = 1 THEN NewLogger("nop") ELSE NoLogger]
    /\ nloggers = 1
    /\ gpc = [g \in Goroutines |-> "idle"]
    /\ gop = [g \in Goroutines |-> NoOp]
    /\ gcalls = 0
    /\ exited = 0
    /\ gshut = FALSE
    /\ debugAnswers = {}

\* LogFormatter.IsEnabled(level) of instance l: NopSink.IsEnabled is false;
\* a file chain is enabled at every level, because BufferedSink.IsEnabled
\* asks the FileWriter, whose IsEnabled is true.
LoggerIsEnabled(l) == loggers[l].kind = "file"

\* A goroutine calls Debugf .. Errorf ("Logf"), IsDebugEnabled, Fatalf,
\* EnableDefaultLoggerFor* ("Enable") or Close.
GCall(g, op) ==
    /\ exited = 0
    /\ gpc[g] = "idle"
    /\ gcalls < MaxGCalls
    /\ gcalls' = gcalls + 1
    /\ gop' = [gop EXCEPT ![g] = [NoOp EXCEPT !.op = op, !.rec = gcalls + 1]]
    /\ gpc' = [gpc EXCEPT ![g] = IF op \in {"Enable", "Close"} THEN "glock" ELSE "get"]
    /\ UNCHANGED <<gDefaultLogger, gDefaultLoggerGuard, loggers, nloggers, exited,
                   gshut, debugAnswers>>

\* GetDefaultLogger, mutated: gDefaultLogger is read without the guard.
GetUnguarded(g) ==
    /\ exited = 0
    /\ gpc[g] = "get"
    /\ gop' = [gop EXCEPT ![g].l = gDefaultLogger,
                          ![g].live = (loggers[gDefaultLogger].closes = 0),
                          ![g].shut = gshut]
    /\ gpc' = [gpc EXCEPT ![g] = "enabled"]
    /\ UNCHANGED <<gDefaultLogger, gDefaultLoggerGuard, loggers, nloggers, gcalls,
                   exited, gshut, debugAnswers>>

\* GetDefaultLogger(): Lock, l := gDefaultLogger, Unlock
GetDefaultLogger(g) ==
    /\ exited = 0
    /\ gpc[g] = "get"
    /\ gDefaultLoggerGuard = 0
    /\ gop' = [gop EXCEPT ![g].l = gDefaultLogger,
                          ![g].live = (loggers[gDefaultLogger].closes = 0),
                          ![g].shut = gshut]
    /\ gpc' = [gpc EXCEPT ![g] = "enabled"]
    /\ UNCHANGED <<gDefaultLogger, gDefaultLoggerGuard, loggers, nloggers, gcalls,
                   exited, gshut, debugAnswers>>

\* l.IsEnabled(level), as IsDebugEnabled calls it and as format calls it
\* first: the mutex of l is taken around dest.IsEnabled(level).
GIsEnabled(g) ==
    /\ exited = 0
    /\ gpc[g] = "enabled"
    /\ loggers[gop[g].l].mut = 0
    /\ LET r == LoggerIsEnabled(gop[g].l)
           op == gop[g].op
       IN  /\ debugAnswers' = IF op = "IsDebugEnabled"
                              THEN debugAnswers \cup {[l |-> gop[g].l, r |-> r]}
                              ELSE debugAnswers
           /\ gpc' = [gpc EXCEPT ![g] =
                        IF op = "IsDebugEnabled" THEN "idle"
                        ELSE IF r THEN "lock"
                        ELSE IF op = "Fatalf" THEN "glock" ELSE "idle"]
    /\ UNCHANGED <<gDefaultLogger, gDefaultLoggerGuard, loggers, nloggers, gop, gcalls,
                   exited, gshut>>

\* format: self.mut.Lock() of the logger the call got
GLock(g) ==
    /\ exited = 0
    /\ gpc[g] = "lock"
    /\ loggers[gop[g].l].mut = 0
    /\ loggers' = [loggers EXCEPT ![gop[g].l].mut = g]
    /\ gpc' = [gpc EXCEPT ![g] = "send"]
    /\ UNCHANGED <<gDefaultLogger, gDefaultLoggerGuard, nloggers, gop, gcalls, exited,
                   gshut, debugAnswers>>

\* format: dest.Log, which ends in BufferedSink.Log (s.queue <- entry), then
\* self.mut.Unlock(); Fatalf goes on to Close().
GSend(g) ==
    /\ exited = 0
    /\ gpc[g] = "send"
    /\ Len(loggers[gop[g].l].queue) < gQueueSize
    /\ loggers' = [loggers EXCEPT
                     ![gop[g].l].queue =
                         Append(@, [kind |-> "rec", id |-> gop[g].rec, op |-> gop[g].op]),
                     ![gop[g].l].mut = 0]
    /\ gpc' = [gpc EXCEPT ![g] = IF gop[g].op = "Fatalf" THEN "glock" ELSE "idle"]
    /\ UNCHANGED <<gDefaultLogger, gDefaultLoggerGuard, nloggers, gop, gcalls, exited,
                   gshut, debugAnswers>>

\* Enable* and Close: gDefaultLoggerGuard.Lock()
GGuardLock(g) ==
    /\ exited = 0
    /\ gpc[g] = "glock"
    /\ gDefaultLoggerGuard = 0
    /\ gDefaultLoggerGuard' = g
    /\ gpc' = [gpc EXCEPT ![g] = "cl_lock"]
    /\ UNCHANGED <<gDefaultLogger, loggers, nloggers, gop, gcalls, exited, gshut,
                   debugAnswers>>

\* A replacement that installs the new logger without closing the old one.
GCloseLockSkipped(g) ==
    /\ exited = 0
    /\ gpc[g] = "cl_lock"
    /\ gpc' = [gpc EXCEPT ![g] = "install"]
    /\ UNCHANGED <<gDefaultLogger, gDefaultLoggerGuard, loggers, nloggers, gop, gcalls,
                   exited, gshut, debugAnswers>>

\* gDefaultLogger.Close(): LogFormatter.Close takes the mutex of the logger.
GCloseLock(g) ==
    /\ exited = 0
    /\ gpc[g] = "cl_lock"
    /\ loggers[gDefaultLogger].mut = 0
    /\ loggers' = [loggers EXCEPT ![gDefaultLogger].mut = g,
                                  ![gDefaultLogger].closes = @ + 1]
    /\ gpc' = [gpc EXCEPT ![g] = "cl_send"]
    /\ UNCHANGED <<gDefaultLogger, gDefaultLoggerGuard, nloggers, gop, gcalls, exited,
                   gshut, debugAnswers>>

\* dest.Close(): BufferedSink.Close sends the close sentinel; NopSink.Close
\* does nothing.
GCloseSend(g) ==
    /\ exited = 0
    /\ gpc[g] = "cl_send"
    /\ IF loggers[gDefaultLogger].kind = "file"
       THEN /\ Len(loggers[gDefaultLogger].queue) < gQueueSize
            /\ loggers' = [loggers EXCEPT
                             ![gDefaultLogger].queue = Append(@, closeSentinel)]
       ELSE UNCHANGED loggers
    /\ gpc' = [gpc EXCEPT ![g] = "cl_wait"]
    /\ UNCHANGED <<gDefaultLogger, gDefaultLoggerGuard, nloggers, gop, gcalls, exited,
                   gshut, debugAnswers>>

\* BufferedSink.Close: s.wg.Wait() returns when the worker has terminated;
\* then LogFormatter.Close unlocks the mutex of the logger.
GCloseWait(g) ==
    /\ exited = 0
    /\ gpc[g] = "cl_wait"
    /\ ~loggers[gDefaultLogger].running
    /\ loggers' = [loggers EXCEPT ![gDefaultLogger].mut = 0]
    /\ gpc' = [gpc EXCEPT ![g] = "install"]
    /\ UNCHANGED <<gDefaultLogger, gDefaultLoggerGuard, nloggers, gop, gcalls, exited,
                   gshut, debugAnswers>>

\* Close, mutated: the closed logger stays the default logger.
GInstallKeepClosed(g) ==
    /\ exited = 0
    /\ gpc[g] = "install"
    /\ nloggers' = nloggers + 1
    /\ loggers' = [loggers EXCEPT ![nloggers + 1] =
                     NewLogger(IF gop[g].op = "Enable" THEN "file" ELSE "nop")]
    /\ gDefaultLogger' = IF gop[g].op = "Enable" THEN nloggers + 1 ELSE gDefaultLogger
    /\ gDefaultLoggerGuard' = 0
    /\ gshut' = (gop[g].op # "Enable")
    /\ gpc' = [gpc EXCEPT ![g] = IF gop[g].op = "Fatalf" THEN "exit" ELSE "idle"]
    /\ UNCHANGED <<gop, gcalls, exited, debugAnswers>>

\* gDefaultLogger = NewLogger(...): a file chain in Enable*, a NopSink in
\* Close; then gDefaultLoggerGuard.Unlock().
GInstall(g) ==
    /\ exited = 0
    /\ gpc[g] = "install"
    /\ nloggers' = nloggers + 1
    /\ loggers' = [loggers EXCEPT ![nloggers + 1] =
                     NewLogger(IF gop[g].op = "Enable" THEN "file" ELSE "nop")]
    /\ gDefaultLogger' = nloggers + 1
    /\ gDefaultLoggerGuard' = 0
    /\ gshut' = (gop[g].op # "Enable")
    /\ gpc' = [gpc EXCEPT ![g] = IF gop[g].op = "Fatalf" THEN "exit" ELSE "idle"]
    /\ UNCHANGED <<gop, gcalls, exited, debugAnswers>>

\* Fatalf: os.Exit(1) ends every goroutine of the process.
GExit(g) ==
    /\ exited = 0
    /\ gpc[g] = "exit"
    /\ exited' = g
    /\ UNCHANGED <<gDefaultLogger, gDefaultLoggerGuard, loggers, nloggers, gpc, gop,
                   gcalls, gshut, debugAnswers>>

\* The worker of the BufferedSink of logger i receives one entry: a record
\* goes to the FileWriter, the close sentinel closes the FileWriter and ends
\* the worker.
GWorker(i) ==
    /\ exited = 0
    /\ loggers[i].running
    /\ loggers[i].queue # <<>>
    /\ LET e == Head(loggers[i].queue)
       IN  loggers' = [loggers EXCEPT
                         ![i].queue = Tail(@),
                         ![i].written = IF e.kind = "rec" THEN Append(@, e.id) ELSE @,
                         ![i].running = (e.kind = "rec")]
    /\ UNCHANGED <<gDefaultLogger, gDefaultLoggerGuard, nloggers, gpc, gop, gcalls,
                   exited, gshut, debugAnswers>>

\* ------------------------------------------------------------------------
\* MultiWriter
\* ------------------------------------------------------------------------
MaxMultiCalls == 3

\* The sinks a MultiWriter can hold: a NopSink, a FileWriter, or a
\* ConsoleWriter with some minimum level.
Children ==
    {[kind |-> "nop", minLevel |-> Debug], [kind |-> "file", minLevel |-> Debug]}
        \cup {[kind |-> "console", minLevel |-> m] : m \in RecordLevels}

\* IsEnabled(level) of a child: NopSink false, FileWriter true, ConsoleWriter
\* level >= minLevel.
ChildIsEnabled(c, level) ==
    IF c.kind = "nop" THEN FALSE
    ELSE IF c.kind = "file" THEN TRUE
    ELSE level >= c.minLevel

\* MultiWriter.IsEnabled(level), mutated: only the first child is asked.
MultiIsEnabledFirstOnly(level) == ChildIsEnabled(first, level)

\* MultiWriter.IsEnabled(level)
MultiIsEnabled(level) == ChildIsEnabled(first, level) \/ ChildIsEnabled(second, level)

\* No MultiWriter call is in progress.
NoMultiOp == [op |-> "none", level |-> Debug, id |-> 0, failed |-> FALSE]

\* NewMultiWriter(first, second)
InitMultiWriter ==
    /\ first \in Children
    /\ second \in Children
    /\ mpc = "idle"
    /\ mop = NoMultiOp
    /\ childLog = <<>>
    /\ manswers = {}
    /\ mcalls = 0

\* The MultiWriter of the other models: never called.
InitMultiIdle ==
    /\ first = [kind |-> "nop", minLevel |-> Debug]
    /\ second = [kind |-> "nop", minLevel |-> Debug]
    /\ mpc = "idle"
    /\ mop = NoMultiOp
    /\ childLog = <<>>
    /\ manswers = {}
    /\ mcalls = 0

\* A call of MultiWriter.IsEnabled(level) and its result.
MwIsEnabled(level) ==
    /\ mpc = "idle"
    /\ mcalls < MaxMultiCalls
    /\ mcalls' = mcalls + 1
    /\ manswers' = manswers \cup {[level |-> level, r |-> MultiIsEnabled(level)]}
    /\ UNCHANGED <<first, second, mpc, mop, childLog>>

\* A call of MultiWriter.Log(when, level, message), Flush() or Close().
MwCall(op, level) ==
    /\ mpc = "idle"
    /\ mcalls < MaxMultiCalls
    /\ mcalls' = mcalls + 1
    /\ mop' = [op |-> op, level |-> level, id |-> mcalls + 1, failed |-> FALSE]
    /\ mpc' = "first"
    /\ UNCHANGED <<first, second, childLog, manswers>>

\* self.first.Log / Flush / Close: the I/O of a FileWriter child may fail
\* (ok is FALSE); the child returns nothing to the MultiWriter.
MwFirst(ok) ==
    /\ mpc = "first"
    /\ childLog' = Append(childLog, [child |-> 1, op |-> mop.op, level |-> mop.level,
                                     id |-> mop.id, failed |-> ~ok])
    /\ mop' = [mop EXCEPT !.failed = ~ok]
    /\ mpc' = "second"
    /\ UNCHANGED <<first, second, manswers, mcalls>>

\* The second call, mutated: skipped when the first child's I/O failed.
MwSecondUnlessFailed ==
    /\ mpc = "second"
    /\ childLog' = IF mop.failed THEN childLog
                   ELSE Append(childLog, [child |-> 2, op |-> mop.op, level |-> mop.level,
                                          id |-> mop.id, failed |-> FALSE])
    /\ mop' = NoMultiOp
    /\ mpc' = "idle"
    /\ UNCHANGED <<first, second, manswers, mcalls>>

\* self.second.Log / Flush / Close, and the call returns.
MwSecond ==
    /\ mpc = "second"
    /\ childLog' = Append(childLog, [child |-> 2, op |-> mop.op, level |-> mop.level,
                                     id |-> mop.id, failed |-> FALSE])
    /\ mop' = NoMultiOp
    /\ mpc' = "idle"
    /\ UNCHANGED <<first, second, manswers, mcalls>>

\* ------------------------------------------------------------------------
\* The two-queue Logger with pooled message buffers
\* ------------------------------------------------------------------------
\* Levels of the two-queue Logger (type Level); lineCloseLevel is its
\* closeLevel, the level of the line that Close sends.
DEBUG == 1
INFO == 2
AUDIT == 3
WARNING == 4
ERROR == 5
FATAL == 6
DISABLED == 7
lineCloseLevel == 8

\* Bounds: the capacities of inputQueue and consoleQueue (2048 and 101 in
\* New), the buffers bufPool can hand out, and the lines logged.
InputQueueSize == 2
ConsoleQueueSize == 2
NumBufs == 2
MaxLines == 3

\* The levels the callers log at.
LineLevels == {INFO, ERROR}

\* logLine{msg, level, tm}: msg is a pointer to a buffer; id names the call.
logLine(buf, level, id) == [buf |-> buf, level |-> level, id |-> id]

NoLine == logLine(0, 0, 0)

\* if l.options.LowerLevelToConsole <= FATAL { l.consoleQueue = make(...) }
HasConsole == LowerLevelToConsole <= FATAL

\* New(opts) with the given thresholds (already normalised by New).
InitLoggerWith(toFile, toConsole) ==
    /\ LowerLevelToFile = toFile
    /\ LowerLevelToConsole = toConsole
    /\ inputQueue = <<>>
    /\ consoleQueue = <<>>
    /\ bufs = [b \in 1..NumBufs |-> <<>>]
    /\ pool = {}
    /\ nbufs = 0
    /\ ipc = "select"
    /\ iline = NoLine
    /\ nevict = 0
    /\ cpc = IF toConsole <= FATAL THEN "range" ELSE "none"
    /\ shown = <<>>
    /\ fileLines = <<>>
    /\ lwg = IF toConsole <= FATAL THEN 2 ELSE 1
    /\ lpc = "idle"
    /\ dropped = <<>>
    /\ lcalls = 0
    /\ lfp = FALSE
    /\ sentLines = <<>>
    /\ fileDropped = {}

\* New(opts)
InitLogger ==
    \E toFile \in {INFO, DISABLED}, toConsole \in {DEBUG, AUDIT, DISABLED} :
        InitLoggerWith(toFile, toConsole)

\* The Logger of the other models: never called.
InitLoggerIdle == InitLoggerWith(INFO, AUDIT)

\* The buffers bufPool.Get() can return: one that was put back, or a new one.
Gettable == pool \cup (IF nbufs < NumBufs THEN {nbufs + 1} ELSE {})

\* Logger.addLine / addLineF(level, ...): the level test, a buffer from the
\* pool, the message printed into it, and the send on inputQueue.
addLine(level, buf) ==
    /\ lcalls < MaxLines
    /\ lcalls' = lcalls + 1
    /\ IF level < LowerLevelToFile /\ level < LowerLevelToConsole
       THEN UNCHANGED <<inputQueue, bufs, pool, nbufs, sentLines>>
       ELSE /\ buf \in Gettable
            /\ Len(inputQueue) < InputQueueSize
            /\ pool' = pool \ {buf}
            /\ nbufs' = IF buf \in pool THEN nbufs ELSE nbufs + 1
            /\ bufs' = [bufs EXCEPT ![buf] = Append(@, lcalls + 1)]
            /\ inputQueue' = Append(inputQueue, logLine(buf, level, lcalls + 1))
            /\ sentLines' = Append(sentLines, logLine(buf, level, lcalls + 1))
    /\ UNCHANGED <<consoleQueue, LowerLevelToFile, LowerLevelToConsole, ipc, iline,
                   nevict, cpc, shown, fileLines, lwg, lpc, dropped,
                   lfp, fileDropped>>

\* Logger.Close(): l.inputQueue <- logLine{&bytes.Buffer{}, closeLevel, ...}
LoggerCloseSend ==
    /\ lpc = "idle"
    /\ Len(inputQueue) < InputQueueSize
    /\ inputQueue' = Append(inputQueue, logLine(0, lineCloseLevel, 0))
    /\ sentLines' = Append(sentLines, logLine(0, lineCloseLevel, 0))
    /\ lpc' = "wait"
    /\ UNCHANGED <<consoleQueue, LowerLevelToFile, LowerLevelToConsole, bufs, pool,
                   nbufs, ipc, iline, nevict, cpc, shown, fileLines, lwg, dropped,
                   lcalls, lfp, fileDropped>>

\* Logger.Close(): l.wg.Wait(), then the file is flushed and closed.
LoggerCloseReturn ==
    /\ lpc = "wait"
    /\ lwg = 0
    /\ lpc' = "closed"
    /\ lfp' = FALSE
    /\ UNCHANGED <<inputQueue, consoleQueue, LowerLevelToFile, LowerLevelToConsole,
                   bufs, pool, nbufs, ipc, iline, nevict, cpc, shown, fileLines, lwg,
                   dropped, lcalls, sentLines, fileDropped>>

\* case line := <-l.inputQueue, and the test whether the line goes to the
\* console queue.
InputRecv ==
    /\ ipc = "select"
    /\ inputQueue # <<>>
    /\ iline' = Head(inputQueue)
    /\ inputQueue' = Tail(inputQueue)
    /\ nevict' = 0
    /\ ipc' = IF Head(inputQueue).level >= LowerLevelToConsole /\ HasConsole
              THEN "handoff" ELSE "after"
    /\ UNCHANGED <<consoleQueue, LowerLevelToFile, LowerLevelToConsole, bufs, pool,
                   nbufs, cpc, shown, fileLines, lwg, lpc, dropped, lcalls,
                   lfp, sentLines, fileDropped>>

\* select { case l.consoleQueue <- line: sent = true; default: ... }
InputTrySend ==
    /\ ipc = "handoff"
    /\ IF Len(consoleQueue) < ConsoleQueueSize
       THEN /\ consoleQueue' = Append(consoleQueue, iline)
            /\ ipc' = "after"
       ELSE /\ consoleQueue' = consoleQueue
            /\ ipc' = "evict"
    /\ UNCHANGED <<inputQueue, LowerLevelToFile, LowerLevelToConsole, bufs, pool,
                   nbufs, iline, nevict, cpc, shown, fileLines, lwg, lpc, dropped,
                   lcalls,
                   lfp, sentLines, fileDropped>>

\* An eviction that removes the newest buffered entry.
InputEvictNewest ==
    /\ ipc = "evict"
    /\ IF consoleQueue # <<>>
       THEN /\ consoleQueue' = SubSeq(consoleQueue, 1, Len(consoleQueue) - 1)
            /\ dropped' = Append(dropped, consoleQueue[Len(consoleQueue)].id)
            /\ nevict' = nevict + 1
       ELSE UNCHANGED <<consoleQueue, dropped, nevict>>
    /\ ipc' = "handoff"
    /\ UNCHANGED <<inputQueue, LowerLevelToFile, LowerLevelToConsole, bufs, pool,
                   nbufs, iline, cpc, shown, fileLines, lwg, lpc, lcalls,
                   lfp, sentLines, fileDropped>>

\* default: select { case <-l.consoleQueue: default: }, and the loop tries
\* the send again.
InputEvict ==
    /\ ipc = "evict"
    /\ IF consoleQueue # <<>>
       THEN /\ consoleQueue' = Tail(consoleQueue)
            /\ dropped' = Append(dropped, Head(consoleQueue).id)
            /\ nevict' = nevict + 1
       ELSE UNCHANGED <<consoleQueue, dropped, nevict>>
    /\ ipc' = "handoff"
    /\ UNCHANGED <<inputQueue, LowerLevelToFile, LowerLevelToConsole, bufs, pool,
                   nbufs, iline, cpc, shown, fileLines, lwg, lpc, lcalls,
                   lfp, sentLines, fileDropped>>

\* Logger.newFileLine(line) as far as the fate of the line goes: the lazy
\* open (the line is dropped when it fails), the rotation with its reopen
\* (the line is dropped when that fails), and writeFileLine.
newFileLineWrites(open, openOk, rotate, reopenOk) ==
    (open \/ openOk) /\ (rotate => reopenOk)

\* l.fp after newFileLine.
newFileLineOpen(open, openOk, rotate, reopenOk) ==
    IF ~open /\ ~openOk THEN FALSE ELSE (rotate => reopenOk)

\* An input worker that skips newFileLine for a line it had to evict a
\* console entry for.
InputAfterSkipsOnEvict(openOk, rotate, reopenOk) ==
    /\ ipc = "after"
    /\ IF iline.level = lineCloseLevel
       THEN /\ ipc' = "done"
            /\ lwg' = lwg - 1
            /\ UNCHANGED <<bufs, pool, fileLines, lfp, fileDropped>>
       ELSE /\ ipc' = "select"
            /\ IF iline.level >= LowerLevelToFile /\ nevict = 0
               THEN /\ lfp' = newFileLineOpen(lfp, openOk, rotate, reopenOk)
                    /\ IF newFileLineWrites(lfp, openOk, rotate, reopenOk)
                       THEN /\ fileLines' = Append(fileLines, [id |-> iline.id,
                                                               text |-> bufs[iline.buf]])
                            /\ fileDropped' = fileDropped
                       ELSE /\ fileLines' = fileLines
                            /\ fileDropped' = fileDropped \cup {iline.id}
               ELSE UNCHANGED <<fileLines, lfp, fileDropped>>
            /\ bufs' = [bufs EXCEPT ![iline.buf] = <<>>]
            /\ pool' = pool \cup {iline.buf}
            /\ lwg' = lwg
    /\ UNCHANGED <<inputQueue, consoleQueue, LowerLevelToFile, LowerLevelToConsole,
                   nbufs, iline, nevict, cpc, shown, lpc, dropped, lcalls, sentLines>>

\* After the hand-off: return on the close line; else newFileLine when the
\* level reaches LowerLevelToFile, then line.msg.Reset() and bufPool.Put.
InputAfter(openOk, rotate, reopenOk) ==
    /\ ipc = "after"
    /\ IF iline.level = lineCloseLevel
       THEN /\ ipc' = "done"
            /\ lwg' = lwg - 1
            /\ UNCHANGED <<bufs, pool, fileLines, lfp, fileDropped>>
       ELSE /\ ipc' = "select"
            /\ IF iline.level >= LowerLevelToFile
               THEN /\ lfp' = newFileLineOpen(lfp, openOk, rotate, reopenOk)
                    /\ IF newFileLineWrites(lfp, openOk, rotate, reopenOk)
                       THEN /\ fileLines' = Append(fileLines, [id |-> iline.id,
                                                               text |-> bufs[iline.buf]])
                            /\ fileDropped' = fileDropped
                       ELSE /\ fileLines' = fileLines
                            /\ fileDropped' = fileDropped \cup {iline.id}
               ELSE UNCHANGED <<fileLines, lfp, fileDropped>>
            /\ bufs' = [bufs EXCEPT ![iline.buf] = <<>>]
            /\ pool' = pool \cup {iline.buf}
            /\ lwg' = lwg
    /\ UNCHANGED <<inputQueue, consoleQueue, LowerLevelToFile, LowerLevelToConsole,
                   nbufs, iline, nevict, cpc, shown, lpc, dropped, lcalls, sentLines>>

\* for line := range l.consoleQueue: return on the close line, else
\* newConsoleLine(line), which prints what line.msg holds now.
ConsoleRecv ==
    /\ cpc = "range"
    /\ consoleQueue # <<>>
    /\ consoleQueue' = Tail(consoleQueue)
    /\ IF Head(consoleQueue).level = lineCloseLevel
       THEN /\ cpc' = "done"
            /\ lwg' = lwg - 1
            /\ shown' = shown
       ELSE /\ cpc' = cpc
            /\ lwg' = lwg
            /\ shown' = Append(shown, [id |-> Head(consoleQueue).id,
                                       text |-> bufs[Head(consoleQueue).buf]])
    /\ UNCHANGED <<inputQueue, LowerLevelToFile, LowerLevelToConsole, bufs, pool,
                   nbufs, ipc, iline, nevict, fileLines, lpc, dropped, lcalls,
                   lfp, sentLines, fileDropped>>

\* ------------------------------------------------------------------------
\* The original Logger (logger.go) and its package-level API
\* ------------------------------------------------------------------------
\* Bound: the calls of the package-level API.
MaxOldCalls == 3

\* The levels of Info and Error.
OldLevels == {INFO, ERROR}

\* l.options: New builds &Logger{inputQueue: ...} and normalises *opt, but
\* never copies opt into l.options, so the worker and addLine read the zero
\* Options.
lOptions == [LowerLevelToFile |-> 0, LowerLevelToConsole |-> 0]

\* SetDefaultLogger(New(opt)): opt normalised, the input worker started,
\* and the console queue and console worker only when
\* opt.LowerLevelToConsole < DISABLED.
InitOldWith(toFile, toConsole) ==
    /\ opt = [LowerLevelToFile |-> toFile, LowerLevelToConsole |-> toConsole]
    /\ oDefault = TRUE
    /\ oInput = <<>>
    /\ oInputNil = FALSE
    /\ oConsole = <<>>
    /\ oConsoleNil = ~(toConsole < DISABLED)
    /\ owpc = "range"
    /\ oline = NoLine
    /\ ocpc = IF toConsole < DISABLED THEN "range" ELSE "none"
    /\ owg = IF toConsole < DISABLED THEN 2 ELSE 1
    /\ apc = "idle"
    /\ acall = NoLine
    /\ panicked = FALSE
    /\ oFile = <<>>
    /\ oShown = <<>>
    /\ oSent = <<>>
    /\ oClosed = FALSE
    /\ oLate = 0
    /\ ocalls = 0

\* SetDefaultLogger(New(opt))
InitOld ==
    \E toFile \in {INFO, ERROR}, toConsole \in {AUDIT, DISABLED} :
        InitOldWith(toFile, toConsole)

\* The original Logger of the other models: never called.
InitOldIdle == InitOldWith(INFO, AUDIT)

\* Info(v...) / Error(v...): gDefaultLogger.addLine(level, v). addLine reads
\* l.options first, which faults on a nil gDefaultLogger; else the level
\* test, and the line is built.
OldCall(level) ==
    /\ ~panicked
    /\ apc = "idle"
    /\ ocalls < MaxOldCalls
    /\ ocalls' = ocalls + 1
    /\ oLate' = IF oClosed THEN oLate + 1 ELSE oLate
    /\ IF ~oDefault
       THEN /\ panicked' = TRUE
            /\ UNCHANGED <<apc, acall>>
       ELSE /\ panicked' = FALSE
            /\ IF level < lOptions.LowerLevelToFile /\ level < lOptions.LowerLevelToConsole
               THEN UNCHANGED <<apc, acall>>
               ELSE /\ apc' = "send"
                    /\ acall' = logLine(0, level, ocalls + 1)
    /\ UNCHANGED <<opt, oDefault, oInput, oInputNil, oConsole, oConsoleNil, owpc, oline,
                   ocpc, owg, oFile, oShown, oSent, oClosed>>

\* addLine: l.inputQueue <- logLine{...}; a send on a nil channel never
\* completes.
OldSend ==
    /\ ~panicked
    /\ apc = "send"
    /\ ~oInputNil
    /\ Len(oInput) < InputQueueSize
    /\ oInput' = Append(oInput, acall)
    /\ oSent' = Append(oSent, acall)
    /\ apc' = "idle"
    /\ UNCHANGED <<opt, oDefault, oInputNil, oConsole, oConsoleNil, owpc, oline, ocpc,
                   owg, acall, panicked, oFile, oShown, oClosed, oLate, ocalls>>

\* Close(): SetDefaultLogger(nil). With a default logger, Logger.Close is
\* entered; without one, gDefaultLogger = nil and Close returns.
OldClose ==
    /\ ~panicked
    /\ apc = "idle"
    /\ ocalls < MaxOldCalls
    /\ ocalls' = ocalls + 1
    /\ IF oDefault
       THEN /\ apc' = "closeSend"
            /\ acall' = logLine(0, lineCloseLevel, 0)
            /\ oClosed' = oClosed
       ELSE /\ UNCHANGED <<apc, acall>>
            /\ oClosed' = TRUE
    /\ UNCHANGED <<opt, oDefault, oInput, oInputNil, oConsole, oConsoleNil, owpc, oline,
                   ocpc, owg, panicked, oFile, oShown, oSent, oLate>>

\* Logger.Close: l.inputQueue <- logLine{"", closeLevel, time.Now()}
OldCloseSend ==
    /\ ~panicked
    /\ apc = "closeSend"
    /\ ~oInputNil
    /\ Len(oInput) < InputQueueSize
    /\ oInput' = Append(oInput, acall)
    /\ oSent' = Append(oSent, acall)
    /\ apc' = "closeWait"
    /\ UNCHANGED <<opt, oDefault, oInputNil, oConsole, oConsoleNil, owpc, oline, ocpc,
                   owg, acall, panicked, oFile, oShown, oClosed, oLate, ocalls>>

\* l.wg.Wait() can complete when the counter is zero.
OldWaitReady == owg = 0

\* Logger.Close: l.wg.Wait(), l.inputQueue = nil; then SetDefaultLogger
\* assigns gDefaultLogger = nil and Close returns.
OldCloseReturn ==
    /\ ~panicked
    /\ apc = "closeWait"
    /\ OldWaitReady
    /\ oInputNil' = TRUE
    /\ oDefault' = FALSE
    /\ oClosed' = TRUE
    /\ apc' = "idle"
    /\ UNCHANGED <<opt, oInput, oConsole, oConsoleNil, owpc, oline, ocpc, owg, acall,
                   panicked, oFile, oShown, oSent, oLate, ocalls>>

\* for line := range l.inputQueue, and the test whether the line goes to
\* the console queue.
OldRecv ==
    /\ ~panicked
    /\ owpc = "range"
    /\ oInput # <<>>
    /\ oline' = Head(oInput)
    /\ oInput' = Tail(oInput)
    /\ owpc' = IF Head(oInput).level >= lOptions.LowerLevelToConsole
               THEN "handoff" ELSE "file"
    /\ UNCHANGED <<opt, oDefault, oInputNil, oConsole, oConsoleNil, ocpc, owg, apc,
                   acall, panicked, oFile, oShown, oSent, oClosed, oLate, ocalls>>

\* select { case l.consoleQueue <- line: sent = true; default: ... }: a send
\* on a nil channel is never ready.
OldTrySend ==
    /\ ~panicked
    /\ owpc = "handoff"
    /\ IF ~oConsoleNil /\ Len(oConsole) < ConsoleQueueSize
       THEN /\ oConsole' = Append(oConsole, oline)
            /\ owpc' = "file"
       ELSE /\ oConsole' = oConsole
            /\ owpc' = "evict"
    /\ UNCHANGED <<opt, oDefault, oInput, oInputNil, oConsoleNil, oline, ocpc, owg, apc,
                   acall, panicked, oFile, oShown, oSent, oClosed, oLate, ocalls>>

\* default: select { case <-l.consoleQueue: default: }: a receive from a nil
\* channel is never ready; the loop tries the send again.
OldEvict ==
    /\ ~panicked
    /\ owpc = "evict"
    /\ oConsole' = IF ~oConsoleNil /\ oConsole # <<>> THEN Tail(oConsole) ELSE oConsole
    /\ owpc' = "handoff"
    /\ UNCHANGED <<opt, oDefault, oInput, oInputNil, oConsoleNil, oline, ocpc, owg, apc,
                   acall, panicked, oFile, oShown, oSent, oClosed, oLate, ocalls>>

\* if line.level >= l.options.LowerLevelToFile { l.newFileLine(line) }, which
\* returns above FATAL and when the file cannot be opened; then
\* if line.level >= FATAL { break }, and the deferred l.wg.Done().
OldFile(openOk) ==
    /\ ~panicked
    /\ owpc = "file"
    /\ oFile' = IF oline.level >= lOptions.LowerLevelToFile /\ oline.level <= FATAL /\ openOk
                THEN Append(oFile, oline)
                ELSE oFile
    /\ IF oline.level >= FATAL
       THEN /\ owpc' = "done"
            /\ owg' = owg - 1
       ELSE /\ owpc' = "range"
            /\ owg' = owg
    /\ UNCHANGED <<opt, oDefault, oInput, oInputNil, oConsole, oConsoleNil, oline, ocpc,
                   apc, acall, panicked, oShown, oSent, oClosed, oLate, ocalls>>

\* for line := range l.consoleQueue { l.newConsoleLine(line);
\* if line.level >= FATAL { break } }, and the deferred l.wg.Done().
OldConsoleRecv ==
    /\ ~panicked
    /\ ocpc = "range"
    /\ oConsole # <<>>
    /\ oConsole' = Tail(oConsole)
    /\ oShown' = IF Head(oConsole).level <= FATAL THEN Append(oShown, Head(oConsole))
                 ELSE oShown
    /\ IF Head(oConsole).level >= FATAL
       THEN /\ ocpc' = "done"
            /\ owg' = owg - 1
       ELSE /\ ocpc' = ocpc
            /\ owg' = owg
    /\ UNCHANGED <<opt, oDefault, oInput, oInputNil, oConsoleNil, owpc, oline, apc,
                   acall, panicked, oFile, oSent, oClosed, oLate, ocalls>>

\* ------------------------------------------------------------------------
\* ChangeDefaults and the default logger of multiwriter.go
\* ------------------------------------------------------------------------
\* Bounds: the goroutines calling ChangeDefaults and their calls.
NumChangers == 2
MaxDefCalls == 3

Changers == 1..NumChangers

\* Options as far as the model follows them: the two thresholds and
\* LogfilePrefix ("" when unset). A zero threshold means unset.
Options(toFile, toConsole, prefix) ==
    [LowerLevelToFile |-> toFile, LowerLevelToConsole |-> toConsole,
     LogfilePrefix |-> prefix]

\* The arguments the callers pass to ChangeDefaults.
ChangeArgs == {Options(DEBUG, 0, ""), Options(0, ERROR, ""), Options(0, 0, "p")}

\* updateOptions(&dst, src): the fields set in src replace those of dst.
updateOptions(dst, src) ==
    Options(IF src.LowerLevelToFile # 0 THEN src.LowerLevelToFile ELSE dst.LowerLevelToFile,
            IF src.LowerLevelToConsole # 0 THEN src.LowerLevelToConsole
            ELSE dst.LowerLevelToConsole,
            IF src.LogfilePrefix # "" THEN src.LogfilePrefix ELSE dst.LogfilePrefix)

\* New: if len(l.options.LogfilePrefix) == 0 { ... = path.Base(os.Args[0]) }
withPrefix(o) == IF o.LogfilePrefix = "" THEN [o EXCEPT !.LogfilePrefix = "argv0"] ELSE o

\* New(opts).options: a copy of gDefaultOptions updated with opts, and the
\* prefix defaulted.
New(opts) == withPrefix(updateOptions(gDefaultOptions, opts))

\* var gDefaultOptions = Options{DISABLED, AUDIT, ...}
InitialOptions == Options(DISABLED, AUDIT, "")

\* init(): setDefaultLogger(New(gDefaultOptions)), with RLOG unset.
InitDefaults ==
    /\ gDefaultOptions = InitialOptions
    /\ dOptions = withPrefix(InitialOptions)
    /\ dpc = [g \in Changers |-> "idle"]
    /\ dopt = [g \in Changers |-> Options(0, 0, "")]
    /\ dnewOpts = [g \in Changers |-> InitialOptions]
    /\ dbuilt = [g \in Changers |-> InitialOptions]
    /\ dreplaced = 0
    /\ dcalls = 0

\* The defaults of the other models: ChangeDefaults is never called.
InitDefaultsIdle == InitDefaults

\* A goroutine calls ChangeDefaults(opt).
ChangeDefaults(g, o) ==
    /\ dpc[g] = "idle"
    /\ dcalls < MaxDefCalls
    /\ dcalls' = dcalls + 1
    /\ dopt' = [dopt EXCEPT ![g] = o]
    /\ dpc' = [dpc EXCEPT ![g] = "update"]
    /\ UNCHANGED <<gDefaultOptions, dOptions, dnewOpts, dbuilt, dreplaced>>

\* Under gDefaultOptionsGuard: updateOptions(&gDefaultOptions, opt),
\* changeSettingsByEnv (RLOG unset), newOpts := gDefaultOptions.
ChangeUpdate(g) ==
    /\ dpc[g] = "update"
    /\ gDefaultOptions' = updateOptions(gDefaultOptions, dopt[g])
    /\ dnewOpts' = [dnewOpts EXCEPT ![g] = updateOptions(gDefaultOptions, dopt[g])]
    /\ dpc' = [dpc EXCEPT ![g] = "compare"]
    /\ UNCHANGED <<dOptions, dopt, dbuilt, dreplaced, dcalls>>

\* if GetDefaultLogger().options != newOpts
ChangeCompare(g) ==
    /\ dpc[g] = "compare"
    /\ dpc' = [dpc EXCEPT ![g] = IF dOptions # dnewOpts[g] THEN "new" ELSE "idle"]
    /\ UNCHANGED <<gDefaultOptions, dOptions, dopt, dnewOpts, dbuilt, dreplaced, dcalls>>

\* New(newOpts)
ChangeNew(g) ==
    /\ dpc[g] = "new"
    /\ dbuilt' = [dbuilt EXCEPT ![g] = New(dnewOpts[g])]
    /\ dpc' = [dpc EXCEPT ![g] = "set"]
    /\ UNCHANGED <<gDefaultOptions, dOptions, dopt, dnewOpts, dreplaced, dcalls>>

\* setDefaultLogger(l): under gDefaultLoggerGuard, the installed logger is
\* closed and gDefaultLogger = l.
setDefaultLogger(g) ==
    /\ dpc[g] = "set"
    /\ dOptions' = dbuilt[g]
    /\ dreplaced' = dreplaced + 1
    /\ dpc' = [dpc EXCEPT ![g] = "idle"]
    /\ UNCHANGED <<gDefaultOptions, dopt, dnewOpts, dbuilt, dcalls>>

\* ------------------------------------------------------------------------
\* The pipeline LogFormatter -> BufferedSink -> FileWriter
\* ------------------------------------------------------------------------
\* The producers are those of the BufferedSink; each LogFormatter call makes
\* one call of the BufferedSink, so MaxCalls bounds both.
PipeOps == {"format", "Flush", "Close"}

\* The length of the messages the producers log.
PipeMessageLen == 16

NoPipeOp == [op |-> "none", level |-> Debug]

\* NewLogger(NewBufferedSink(QueueSize, NewFileWriter(...)), false)
InitPipe ==
    /\ ppc = [p \in Producers |-> "idle"]
    /\ pop = [p \in Producers |-> NoPipeOp]
    /\ pclosing = FALSE
    /\ pcalls = 0

\* The pipeline of the other models: never called.
InitPipeIdle == InitPipe

\* The variables of the LogFormatter model other than the mutex.
fmtRest == <<fpc, fcall, clock, minLevel, console, destLog, answers, skipped, fcalls>>

\* A producer calls Debugf .. Errorf ("format"), Flush or Close of the
\* LogFormatter; Close is called once, when every other call has returned,
\* and nothing is called after it.
PipeCall(p, op, level) ==
    /\ ppc[p] = "idle"
    /\ pcalls < MaxCalls
    /\ ~pclosing
    /\ op = "Close" => \A q \in Producers : ppc[q] = "idle"
    /\ pcalls' = pcalls + 1
    /\ pop' = [pop EXCEPT ![p] = [op |-> op, level |-> level]]
    /\ ppc' = [ppc EXCEPT ![p] = IF op = "format" THEN "enabled" ELSE "lock"]
    /\ pclosing' = (op = "Close")
    /\ UNCHANGED <<bufVars, fileVars, fmtVars>>

\* format: if !self.IsEnabled(level) { return }. IsEnabled takes the mutex
\* around dest.IsEnabled, which ends in FileWriter.IsEnabled: true.
PipeIsEnabled(p) ==
    /\ ppc[p] = "enabled"
    /\ mut = 0
    /\ ppc' = [ppc EXCEPT ![p] = "lock"]
    /\ UNCHANGED <<pop, pclosing, pcalls, bufVars, fileVars, fmtVars>>

\* self.mut.Lock() and the entry into dest.Log, dest.Flush or dest.Close of
\* the BufferedSink.
PipeLock(p) ==
    /\ ppc[p] = "lock"
    /\ mut = 0
    /\ mut' = p
    /\ ppc' = [ppc EXCEPT ![p] = "in"]
    /\ CASE pop[p].op = "format" -> CallLog(p, pop[p].level)
         [] pop[p].op = "Flush" -> CallFlush(p)
         [] OTHER -> CallClose(p)
    /\ UNCHANGED <<pop, pclosing, pcalls, fileVars, fmtRest>>

\* A return from the LogFormatter that leaves the mutex locked.
PipeUnlockKept(p) ==
    /\ ppc[p] = "in"
    /\ pc[p] = "idle"
    /\ mut = p
    /\ mut' = mut
    /\ ppc' = [ppc EXCEPT ![p] = "idle"]
    /\ UNCHANGED <<pop, pclosing, pcalls, bufVars, fileVars, fmtRest>>

\* The call of the BufferedSink has returned: self.mut.Unlock(), and the
\* LogFormatter call returns.
PipeUnlock(p) ==
    /\ ppc[p] = "in"
    /\ pc[p] = "idle"
    /\ mut = p
    /\ mut' = 0
    /\ ppc' = [ppc EXCEPT ![p] = "idle"]
    /\ UNCHANGED <<pop, pclosing, pcalls, bufVars, fileVars, fmtRest>>

\* The results of the system calls of a FileWriter.Log call.
PipeFileLog(level) ==
    \E openOk \in (IF fp THEN {TRUE} ELSE BOOLEAN) :
    \E statOk \in (IF ~fp /\ openOk THEN BOOLEAN ELSE {TRUE}) :
    \E reopenOk \in BOOLEAN :
        FileWriterLog(level, PipeMessageLen, openOk, statOk,
                      [i \in 1..(maxLogFiles - 1) |-> TRUE], reopenOk)

\* The worker's s.downstream.Log(...) on the FileWriter.
PipeWorkerLog == WorkerLog /\ PipeFileLog(line.level)

\* The worker's s.downstream.Flush() for a flush entry, on the FileWriter.
PipeWorkerFlush == WorkerFlush /\ FileWriterFlush

\* The worker's s.downstream.Close() on the FileWriter.
PipeWorkerClose == WorkerClose /\ FileWriterClose

\* case <-ticker.C: s.downstream.Flush() on the FileWriter.
PipeTick == WorkerTick /\ FileWriterFlush

\* ------------------------------------------------------------------------
\* Specification of the BufferedSink
\* ------------------------------------------------------------------------
InitBuf == InitSink /\ InitFileIdle /\ InitFormatterIdle /\ InitGlobal /\ InitMultiIdle /\ InitLoggerIdle /\ InitOldIdle /\ InitDefaultsIdle /\ InitPipeIdle

NextBuf ==
    \/ \E p \in Producers, level \in LoggedLevels : CallLog(p, level) /\ UNCHANGED <<fileVars, fmtVars, globVars, multiVars, tqVars, oldVars, defVars, pipeVars>>
    \/ \E p \in Producers : LogSend(p) /\ UNCHANGED <<fileVars, fmtVars, globVars, multiVars, tqVars, oldVars, defVars, pipeVars>>
    \/ \E p \in Producers : CallFlush(p) /\ UNCHANGED <<fileVars, fmtVars, globVars, multiVars, tqVars, oldVars, defVars, pipeVars>>
    \/ \E p \in Producers : FlushSend(p) /\ UNCHANGED <<fileVars, fmtVars, globVars, multiVars, tqVars, oldVars, defVars, pipeVars>>
    \/ \E p \in Producers : FlushReturn(p) /\ UNCHANGED <<fileVars, fmtVars, globVars, multiVars, tqVars, oldVars, defVars, pipeVars>>
    \/ \E p \in Producers : CallClose(p) /\ UNCHANGED <<fileVars, fmtVars, globVars, multiVars, tqVars, oldVars, defVars, pipeVars>>
    \/ \E p \in Producers : CloseSend(p) /\ UNCHANGED <<fileVars, fmtVars, globVars, multiVars, tqVars, oldVars, defVars, pipeVars>>
    \/ \E p \in Producers : CloseReturn(p) /\ UNCHANGED <<fileVars, fmtVars, globVars, multiVars, tqVars, oldVars, defVars, pipeVars>>
    \/ WorkerRecv /\ UNCHANGED <<fileVars, fmtVars, globVars, multiVars, tqVars, oldVars, defVars, pipeVars>>
    \/ WorkerTick /\ UNCHANGED <<fileVars, fmtVars, globVars, multiVars, tqVars, oldVars, defVars, pipeVars>>
    \/ WorkerClose /\ UNCHANGED <<fileVars, fmtVars, globVars, multiVars, tqVars, oldVars, defVars, pipeVars>>
    \/ WorkerFlush /\ UNCHANGED <<fileVars, fmtVars, globVars, multiVars, tqVars, oldVars, defVars, pipeVars>>
    \/ WorkerLog /\ UNCHANGED <<fileVars, fmtVars, globVars, multiVars, tqVars, oldVars, defVars, pipeVars>>

SpecBuf == InitBuf /\ [][NextBuf]_vars

\* ------------------------------------------------------------------------
\* Specification of the BufferedSink whose Log is called with any level
\* ------------------------------------------------------------------------
\* Log takes an int: the levels a caller can pass include the values of
\* closeLevel and flushLevel.
AnyLevels == {closeLevel, flushLevel, Info}

NextBufAny ==
    \/ \E p \in Producers, level \in AnyLevels : CallLog(p, level) /\ UNCHANGED <<fileVars, fmtVars, globVars, multiVars, tqVars, oldVars, defVars, pipeVars>>
    \/ \E p \in Producers : LogSend(p) /\ UNCHANGED <<fileVars, fmtVars, globVars, multiVars, tqVars, oldVars, defVars, pipeVars>>
    \/ \E p \in Producers : CallFlush(p) /\ UNCHANGED <<fileVars, fmtVars, globVars, multiVars, tqVars, oldVars, defVars, pipeVars>>
    \/ \E p \in Producers : FlushSend(p) /\ UNCHANGED <<fileVars, fmtVars, globVars, multiVars, tqVars, oldVars, defVars, pipeVars>>
    \/ \E p \in Producers : FlushReturn(p) /\ UNCHANGED <<fileVars, fmtVars, globVars, multiVars, tqVars, oldVars, defVars, pipeVars>>
    \/ \E p \in Producers : CallClose(p) /\ UNCHANGED <<fileVars, fmtVars, globVars, multiVars, tqVars, oldVars, defVars, pipeVars>>
    \/ \E p \in Producers : CloseSend(p) /\ UNCHANGED <<fileVars, fmtVars, globVars, multiVars, tqVars, oldVars, defVars, pipeVars>>
    \/ \E p \in Producers : CloseReturn(p) /\ UNCHANGED <<fileVars, fmtVars, globVars, multiVars, tqVars, oldVars, defVars, pipeVars>>
    \/ WorkerRecv /\ UNCHANGED <<fileVars, fmtVars, globVars, multiVars, tqVars, oldVars, defVars, pipeVars>>
    \/ WorkerTick /\ UNCHANGED <<fileVars, fmtVars, globVars, multiVars, tqVars, oldVars, defVars, pipeVars>>
    \/ WorkerClose /\ UNCHANGED <<fileVars, fmtVars, globVars, multiVars, tqVars, oldVars, defVars, pipeVars>>
    \/ WorkerFlush /\ UNCHANGED <<fileVars, fmtVars, globVars, multiVars, tqVars, oldVars, defVars, pipeVars>>
    \/ WorkerLog /\ UNCHANGED <<fileVars, fmtVars, globVars, multiVars, tqVars, oldVars, defVars, pipeVars>>

SpecBufAny == InitBuf /\ [][NextBufAny]_vars

\* ------------------------------------------------------------------------
\* Specification of the FileWriter
\* ------------------------------------------------------------------------
InitFile == InitSink /\ InitFileWriter /\ InitFormatterIdle /\ InitGlobal /\ InitMultiIdle /\ InitLoggerIdle /\ InitOldIdle /\ InitDefaultsIdle /\ InitPipeIdle

\* The results the system calls of one Log call can have. Only a call that
\* Log makes in the current state has a result: the lazy open when fp is nil,
\* Stat after an open that succeeded, the renames and the reopen when the
\* rotation test holds; a rename whose source is missing fails.
OpenResults == IF fp THEN {TRUE} ELSE BOOLEAN

StatResults(openOk) == IF ~fp /\ openOk THEN BOOLEAN ELSE {TRUE}

Rotates(len, openOk, statOk) ==
    LET st1 == IF fp THEN FwState ELSE openAppend(FwState, 0, openOk, statOk)
    IN  st1.fp /\ mustRotate(st1, len)

RenameResultsFor(rotates) ==
    IF rotates
    THEN {r \in RenameResults :
            \A i \in DOMAIN r : (i > 1 /\ files[i - 1] = NoFile) => ~r[i]}
    ELSE {[i \in 1..(maxLogFiles - 1) |-> FALSE]}

ReopenResults(rotates) == IF rotates THEN BOOLEAN ELSE {TRUE}

NextFile ==
    \/ \E level \in FileLevels, len \in MessageLens, openOk \in OpenResults :
         \E statOk \in StatResults(openOk) :
           \E renOk \in RenameResultsFor(Rotates(len, openOk, statOk)),
              reopenOk \in ReopenResults(Rotates(len, openOk, statOk)) :
                FwLog(level, len, openOk, statOk, renOk, reopenOk) /\ UNCHANGED <<bufVars, fmtVars, globVars, multiVars, tqVars, oldVars, defVars, pipeVars>>
    \/ FwFlush /\ UNCHANGED <<bufVars, fmtVars, globVars, multiVars, tqVars, oldVars, defVars, pipeVars>>
    \/ FwClose /\ UNCHANGED <<bufVars, fmtVars, globVars, multiVars, tqVars, oldVars, defVars, pipeVars>>

SpecFile == InitFile /\ [][NextFile]_vars

\* ------------------------------------------------------------------------
\* Specification of the LogFormatter over a ConsoleWriter
\* ------------------------------------------------------------------------
InitFmt == InitSink /\ InitFileIdle /\ InitFormatter /\ InitGlobal /\ InitMultiIdle /\ InitLoggerIdle /\ InitOldIdle /\ InitDefaultsIdle /\ InitPipeIdle

NextFmt ==
    \/ \E g \in Callers, level \in LoggedLevels :
         CallFormat(g, level) /\ UNCHANGED <<bufVars, fileVars, globVars, multiVars, tqVars, oldVars, defVars, pipeVars>>
    \/ \E g \in Callers : FormatIsEnabled(g) /\ UNCHANGED <<bufVars, fileVars, globVars, multiVars, tqVars, oldVars, defVars, pipeVars>>
    \/ \E g \in Callers : FormatNow(g) /\ UNCHANGED <<bufVars, fileVars, globVars, multiVars, tqVars, oldVars, defVars, pipeVars>>
    \/ \E g \in Callers, level \in LoggedLevels :
         CallFmtLog(g, level) /\ UNCHANGED <<bufVars, fileVars, globVars, multiVars, tqVars, oldVars, defVars, pipeVars>>
    \/ \E g \in Callers : FmtLock(g) /\ UNCHANGED <<bufVars, fileVars, globVars, multiVars, tqVars, oldVars, defVars, pipeVars>>
    \/ \E g \in Callers : FmtDestLog(g) /\ UNCHANGED <<bufVars, fileVars, globVars, multiVars, tqVars, oldVars, defVars, pipeVars>>
    \/ \E g \in Callers : FmtUnlock(g) /\ UNCHANGED <<bufVars, fileVars, globVars, multiVars, tqVars, oldVars, defVars, pipeVars>>
    \/ \E g \in Callers : FmtFlushClose(g) /\ UNCHANGED <<bufVars, fileVars, globVars, multiVars, tqVars, oldVars, defVars, pipeVars>>

SpecFmt == InitFmt /\ [][NextFmt]_vars

\* ------------------------------------------------------------------------
\* Specification of the default logger
\* ------------------------------------------------------------------------
InitGlob == InitSink /\ InitFileIdle /\ InitFormatterIdle /\ InitGlobal /\ InitMultiIdle /\ InitLoggerIdle /\ InitOldIdle /\ InitDefaultsIdle /\ InitPipeIdle

NextGlob ==
    \/ \E g \in Goroutines, op \in GlobalOps :
         GCall(g, op) /\ UNCHANGED <<bufVars, fileVars, fmtVars, multiVars, tqVars, oldVars, defVars, pipeVars>>
    \/ \E g \in Goroutines : GetDefaultLogger(g) /\ UNCHANGED <<bufVars, fileVars, fmtVars, multiVars, tqVars, oldVars, defVars, pipeVars>>
    \/ \E g \in Goroutines : GIsEnabled(g) /\ UNCHANGED <<bufVars, fileVars, fmtVars, multiVars, tqVars, oldVars, defVars, pipeVars>>
    \/ \E g \in Goroutines : GLock(g) /\ UNCHANGED <<bufVars, fileVars, fmtVars, multiVars, tqVars, oldVars, defVars, pipeVars>>
    \/ \E g \in Goroutines : GSend(g) /\ UNCHANGED <<bufVars, fileVars, fmtVars, multiVars, tqVars, oldVars, defVars, pipeVars>>
    \/ \E g \in Goroutines : GGuardLock(g) /\ UNCHANGED <<bufVars, fileVars, fmtVars, multiVars, tqVars, oldVars, defVars, pipeVars>>
    \/ \E g \in Goroutines : GCloseLock(g) /\ UNCHANGED <<bufVars, fileVars, fmtVars, multiVars, tqVars, oldVars, defVars, pipeVars>>
    \/ \E g \in Goroutines : GCloseSend(g) /\ UNCHANGED <<bufVars, fileVars, fmtVars, multiVars, tqVars, oldVars, defVars, pipeVars>>
    \/ \E g \in Goroutines : GCloseWait(g) /\ UNCHANGED <<bufVars, fileVars, fmtVars, multiVars, tqVars, oldVars, defVars, pipeVars>>
    \/ \E g \in Goroutines : GInstall(g) /\ UNCHANGED <<bufVars, fileVars, fmtVars, multiVars, tqVars, oldVars, defVars, pipeVars>>
    \/ \E g \in Goroutines : GExit(g) /\ UNCHANGED <<bufVars, fileVars, fmtVars, multiVars, tqVars, oldVars, defVars, pipeVars>>
    \/ \E i \in Loggers : GWorker(i) /\ UNCHANGED <<bufVars, fileVars, fmtVars, multiVars, tqVars, oldVars, defVars, pipeVars>>

SpecGlob == InitGlob /\ [][NextGlob]_vars

\* ------------------------------------------------------------------------
\* Specification of the MultiWriter
\* ------------------------------------------------------------------------
InitMulti == InitSink /\ InitFileIdle /\ InitFormatterIdle /\ InitGlobal /\ InitMultiWriter /\ InitLoggerIdle /\ InitOldIdle /\ InitDefaultsIdle /\ InitPipeIdle

\* The first child's I/O can fail only when it is a FileWriter.
FirstResults == IF first.kind = "file" THEN BOOLEAN ELSE {TRUE}

NextMulti ==
    \/ \E level \in RecordLevels :
         MwIsEnabled(level) /\ UNCHANGED <<bufVars, fileVars, fmtVars, globVars, tqVars, oldVars, defVars, pipeVars>>
    \/ \E op \in {"Log", "Flush", "Close"}, level \in LoggedLevels :
         MwCall(op, level) /\ UNCHANGED <<bufVars, fileVars, fmtVars, globVars, tqVars, oldVars, defVars, pipeVars>>
    \/ \E ok \in FirstResults : MwFirst(ok) /\ UNCHANGED <<bufVars, fileVars, fmtVars, globVars, tqVars, oldVars, defVars, pipeVars>>
    \/ MwSecond /\ UNCHANGED <<bufVars, fileVars, fmtVars, globVars, tqVars, oldVars, defVars, pipeVars>>

SpecMulti == InitMulti /\ [][NextMulti]_vars

\* ------------------------------------------------------------------------
\* Specification of the two-queue Logger
\* ------------------------------------------------------------------------
InitTwoQueue ==
    InitSink /\ InitFileIdle /\ InitFormatterIdle /\ InitGlobal /\ InitMultiIdle /\ InitLogger /\ InitOldIdle /\ InitDefaultsIdle /\ InitPipeIdle

\* The results of the system calls of newFileLine that matter to the step
\* the input worker is about to take.
AfterWrites == ipc = "after" /\ iline.level # lineCloseLevel /\ iline.level >= LowerLevelToFile

AfterOpenResults == IF AfterWrites /\ ~lfp THEN BOOLEAN ELSE {TRUE}

AfterRotations == IF AfterWrites THEN BOOLEAN ELSE {FALSE}

NextTwoQueue ==
    \/ \E level \in LineLevels, buf \in 1..NumBufs :
         addLine(level, buf) /\ UNCHANGED <<bufVars, fileVars, fmtVars, globVars, multiVars, oldVars, defVars, pipeVars>>
    \/ LoggerCloseSend /\ UNCHANGED <<bufVars, fileVars, fmtVars, globVars, multiVars, oldVars, defVars, pipeVars>>
    \/ LoggerCloseReturn /\ UNCHANGED <<bufVars, fileVars, fmtVars, globVars, multiVars, oldVars, defVars, pipeVars>>
    \/ InputRecv /\ UNCHANGED <<bufVars, fileVars, fmtVars, globVars, multiVars, oldVars, defVars, pipeVars>>
    \/ InputTrySend /\ UNCHANGED <<bufVars, fileVars, fmtVars, globVars, multiVars, oldVars, defVars, pipeVars>>
    \/ InputEvict /\ UNCHANGED <<bufVars, fileVars, fmtVars, globVars, multiVars, oldVars, defVars, pipeVars>>
    \/ \E openOk \in AfterOpenResults, rotate \in AfterRotations :
         \E reopenOk \in (IF rotate THEN BOOLEAN ELSE {TRUE}) :
           InputAfter(openOk, rotate, reopenOk) /\ UNCHANGED <<bufVars, fileVars, fmtVars, globVars, multiVars, oldVars, defVars, pipeVars>>
    \/ ConsoleRecv /\ UNCHANGED <<bufVars, fileVars, fmtVars, globVars, multiVars, oldVars, defVars, pipeVars>>

SpecTwoQueue == InitTwoQueue /\ [][NextTwoQueue]_vars

\* ------------------------------------------------------------------------
\* Specification of the original Logger behind the package-level API
\* ------------------------------------------------------------------------
InitOldLogger ==
    InitSink /\ InitFileIdle /\ InitFormatterIdle /\ InitGlobal /\ InitMultiIdle /\ InitLoggerIdle /\ InitOld /\ InitDefaultsIdle /\ InitPipeIdle

\* The result of os.OpenFile that matters to the step of the input worker.
OldOpenResults ==
    IF owpc = "file" /\ oline.level >= lOptions.LowerLevelToFile /\ oline.level <= FATAL
    THEN BOOLEAN ELSE {TRUE}

NextOldLogger ==
    \/ \E level \in OldLevels : OldCall(level) /\ UNCHANGED <<bufVars, fileVars, fmtVars, globVars, multiVars, tqVars, defVars, pipeVars>>
    \/ OldSend /\ UNCHANGED <<bufVars, fileVars, fmtVars, globVars, multiVars, tqVars, defVars, pipeVars>>
    \/ OldClose /\ UNCHANGED <<bufVars, fileVars, fmtVars, globVars, multiVars, tqVars, defVars, pipeVars>>
    \/ OldCloseSend /\ UNCHANGED <<bufVars, fileVars, fmtVars, globVars, multiVars, tqVars, defVars, pipeVars>>
    \/ OldCloseReturn /\ UNCHANGED <<bufVars, fileVars, fmtVars, globVars, multiVars, tqVars, defVars, pipeVars>>
    \/ OldRecv /\ UNCHANGED <<bufVars, fileVars, fmtVars, globVars, multiVars, tqVars, defVars, pipeVars>>
    \/ OldTrySend /\ UNCHANGED <<bufVars, fileVars, fmtVars, globVars, multiVars, tqVars, defVars, pipeVars>>
    \/ OldEvict /\ UNCHANGED <<bufVars, fileVars, fmtVars, globVars, multiVars, tqVars, defVars, pipeVars>>
    \/ \E openOk \in OldOpenResults : OldFile(openOk) /\ UNCHANGED <<bufVars, fileVars, fmtVars, globVars, multiVars, tqVars, defVars, pipeVars>>
    \/ OldConsoleRecv /\ UNCHANGED <<bufVars, fileVars, fmtVars, globVars, multiVars, tqVars, defVars, pipeVars>>

SpecOldLogger == InitOldLogger /\ [][NextOldLogger]_vars

\* ------------------------------------------------------------------------
\* Specification of concurrent ChangeDefaults calls
\* ------------------------------------------------------------------------
InitChange ==
    InitSink /\ InitFileIdle /\ InitFormatterIdle /\ InitGlobal /\ InitMultiIdle /\ InitLoggerIdle /\ InitOldIdle /\ InitDefaults /\ InitPipeIdle

NextChange ==
    \/ \E g \in Changers, o \in ChangeArgs : ChangeDefaults(g, o) /\ UNCHANGED <<bufVars, fileVars, fmtVars, globVars, multiVars, tqVars, oldVars, pipeVars>>
    \/ \E g \in Changers : ChangeUpdate(g) /\ UNCHANGED <<bufVars, fileVars, fmtVars, globVars, multiVars, tqVars, oldVars, pipeVars>>
    \/ \E g \in Changers : ChangeCompare(g) /\ UNCHANGED <<bufVars, fileVars, fmtVars, globVars, multiVars, tqVars, oldVars, pipeVars>>
    \/ \E g \in Changers : ChangeNew(g) /\ UNCHANGED <<bufVars, fileVars, fmtVars, globVars, multiVars, tqVars, oldVars, pipeVars>>
    \/ \E g \in Changers : setDefaultLogger(g) /\ UNCHANGED <<bufVars, fileVars, fmtVars, globVars, multiVars, tqVars, oldVars, pipeVars>>

SpecChange == InitChange /\ [][NextChange]_vars

\* ------------------------------------------------------------------------
\* Specification of the pipeline LogFormatter -> BufferedSink -> FileWriter
\* ------------------------------------------------------------------------
\* The FileWriter starts in a directory without log files.
InitPipeline ==
    InitSink /\ InitFileIdle /\ InitFormatterIdle /\ InitGlobal /\ InitMultiIdle /\ InitLoggerIdle /\ InitOldIdle /\ InitDefaultsIdle /\ InitPipe

\* The steps of producer p.
PipeProducer(p) ==
    \/ \E op \in PipeOps, level \in FileLevels : PipeCall(p, op, level) /\ UNCHANGED <<globVars, multiVars, tqVars, oldVars, defVars>>
    \/ PipeIsEnabled(p) /\ UNCHANGED <<globVars, multiVars, tqVars, oldVars, defVars>>
    \/ PipeLock(p) /\ UNCHANGED <<globVars, multiVars, tqVars, oldVars, defVars>>
    \/ LogSend(p) /\ UNCHANGED <<fileVars, fmtVars, pipeVars, globVars, multiVars, tqVars, oldVars, defVars>>
    \/ FlushSend(p) /\ UNCHANGED <<fileVars, fmtVars, pipeVars, globVars, multiVars, tqVars, oldVars, defVars>>
    \/ FlushReturn(p) /\ UNCHANGED <<fileVars, fmtVars, pipeVars, globVars, multiVars, tqVars, oldVars, defVars>>
    \/ CloseSend(p) /\ UNCHANGED <<fileVars, fmtVars, pipeVars, globVars, multiVars, tqVars, oldVars, defVars>>
    \/ CloseReturn(p) /\ UNCHANGED <<fileVars, fmtVars, pipeVars, globVars, multiVars, tqVars, oldVars, defVars>>
    \/ PipeUnlock(p) /\ UNCHANGED <<globVars, multiVars, tqVars, oldVars, defVars>>

\* The steps of the worker goroutine other than the tick.
PipeWorker ==
    \/ WorkerRecv /\ UNCHANGED <<fileVars, fmtVars, pipeVars, globVars, multiVars, tqVars, oldVars, defVars>>
    \/ PipeWorkerLog /\ UNCHANGED <<fmtVars, pipeVars, globVars, multiVars, tqVars, oldVars, defVars>>
    \/ PipeWorkerFlush /\ UNCHANGED <<fmtVars, pipeVars, globVars, multiVars, tqVars, oldVars, defVars>>
    \/ PipeWorkerClose /\ UNCHANGED <<fmtVars, pipeVars, globVars, multiVars, tqVars, oldVars, defVars>>

NextPipeline ==
    \/ \E p \in Producers : PipeProducer(p)
    \/ PipeWorker
    \/ PipeTick /\ UNCHANGED <<fmtVars, pipeVars, globVars, multiVars, tqVars, oldVars, defVars>>

SpecPipeline == InitPipeline /\ [][NextPipeline]_vars

\* The pipeline with a fairly scheduled worker and producers: a step of the
\* worker or of a producer that stays possible is eventually taken. A
\* producer is not obliged to make another call.
PipeProgress(p) ==
    \/ PipeIsEnabled(p) /\ UNCHANGED <<globVars, multiVars, tqVars, oldVars, defVars>>
    \/ PipeLock(p) /\ UNCHANGED <<globVars, multiVars, tqVars, oldVars, defVars>>
    \/ LogSend(p) /\ UNCHANGED <<fileVars, fmtVars, pipeVars, globVars, multiVars, tqVars, oldVars, defVars>>
    \/ FlushSend(p) /\ UNCHANGED <<fileVars, fmtVars, pipeVars, globVars, multiVars, tqVars, oldVars, defVars>>
    \/ FlushReturn(p) /\ UNCHANGED <<fileVars, fmtVars, pipeVars, globVars, multiVars, tqVars, oldVars, defVars>>
    \/ CloseSend(p) /\ UNCHANGED <<fileVars, fmtVars, pipeVars, globVars, multiVars, tqVars, oldVars, defVars>>
    \/ CloseReturn(p) /\ UNCHANGED <<fileVars, fmtVars, pipeVars, globVars, multiVars, tqVars, oldVars, defVars>>
    \/ PipeUnlock(p) /\ UNCHANGED <<globVars, multiVars, tqVars, oldVars, defVars>>

SpecPipelineFair ==
    /\ SpecPipeline
    /\ WF_vars(PipeWorker)
    /\ \A p \in Producers : WF_vars(PipeProgress(p))

\* ------------------------------------------------------------------------
\* Properties of the BufferedSink
\* ------------------------------------------------------------------------
\* The entry is a record for the worker: neither sentinel level.
IsRecord(e) == e.level # closeLevel /\ e.level # flushLevel

\* The places in down where the downstream sink received op.
CallsOf(op) == {i \in 1..Len(down) : down[i].op = op}

\* The places in down where the downstream sink received the record e.
LogsOf(e) == {i \in 1..Len(down) : down[i] = DownLog(e)}

\* The Log calls the downstream sink received, in order.
LogCalls == SelectSeq(down, LAMBDA c : c.op = "Log")

\* The Log calls the downstream sink received for records of producer p.
LogCallsFrom(p) ==
    SelectSeq(LogCalls, LAMBDA c : \E i \in 1..Len(sent[p]) : sent[p][i] = c.message)

\* The records among the first n entries sent to the channel.
RecordsUpTo(n) == {i \in 1..n : IsRecord(enq[i])}

\* The place in enq of the first Close sentinel (0: none yet).
FirstClose ==
    IF \E i \in 1..Len(enq) : enq[i].level = closeLevel
    THEN CHOOSE i \in 1..Len(enq) :
            /\ enq[i].level = closeLevel
            /\ \A j \in 1..(i - 1) : enq[j].level # closeLevel
    ELSE 0

\* C1 (FIFO): for every producer, the Log calls the downstream sink has
\* received for that producer's records are, in order and without repetition,
\* an initial part of the records the producer passed to BufferedSink.Log.
C1_Fifo ==
    \A p \in Producers :
        /\ Len(LogCallsFrom(p)) <= Len(sent[p])
        /\ \A i \in 1..Len(LogCallsFrom(p)) : LogCallsFrom(p)[i].message = sent[p][i]

\* A producer has had two records delivered, the second after a tick or a
\* Flush sentinel reached the downstream sink between them.
C1_Witness ==
    \E p \in Producers :
        /\ Len(sent[p]) >= 2
        /\ \E i, j, k \in 1..Len(down) :
            /\ i < j /\ j < k
            /\ down[i].op = "Log" /\ down[i].message = sent[p][1]
            /\ down[j].op = "Flush"
            /\ down[k].op = "Log" /\ down[k].message = sent[p][2]

\* Flush is about to return in p: its receive on ack can complete.
FlushReturning(p) == pc[p] = "FlushWait" /\ AckReady(p)

\* C2 (flush completeness): when Flush returns, every record whose Log call
\* had returned before that Flush was invoked has been passed to
\* downstream.Log, and downstream.Flush has been called after all of them.
C2_FlushComplete ==
    \A p \in Producers :
        FlushReturning(p) =>
            \E f \in CallsOf("Flush") :
                \A i \in RecordsUpTo(flushSnap[p]) :
                    \E l \in LogsOf(enq[i]) : l < f

\* A Flush is returning that was invoked after a Log call had returned.
C2_Witness ==
    \E p \in Producers : FlushReturning(p) /\ RecordsUpTo(flushSnap[p]) # {}

\* C3 (Close): a Close call has returned only if the worker has terminated;
\* a terminated worker has passed every record sent ahead of the Close
\* sentinel to downstream.Log and has then called downstream.Close, once, as
\* its last downstream call.
C3_CloseJoins ==
    /\ closeRet => wpc = "done"
    /\ wpc = "done" =>
        /\ FirstClose > 0
        /\ \A i \in RecordsUpTo(FirstClose - 1) : LogsOf(enq[i]) # {}
        /\ CallsOf("Close") = {Len(down)}

\* Close has returned on a sink that had received a record before it.
C3_Witness == closeRet /\ RecordsUpTo(FirstClose - 1) # {}

\* C4 (Log after Close): a Log call invoked after Close has returned is
\* never unable to complete its send. The worker has returned by then, so
\* nothing receives from the channel any more and a Log call that cannot
\* send never returns.
C4_LogAfterCloseReturns ==
    \A p \in Producers : (pc[p] = "Log" /\ afterClose[p]) => CanSend

\* C5 (blocking backpressure): the channel never holds more than QueueSize
\* entries; every entry sent is still in the channel, in the worker's hands
\* or has been handled by it (none is evicted); no record is passed to
\* downstream.Log twice; and once the worker has terminated, every record
\* whose Log call returned before Close was invoked has been passed to
\* downstream.Log exactly once.
C5_Backpressure ==
    /\ Len(queue) <= QueueSize
    /\ Len(enq) = Len(queue) + (IF wpc = "handle" THEN 1 ELSE 0) + (Len(down) - ticks)
    /\ queue = SubSeq(enq, Len(enq) - Len(queue) + 1, Len(enq))
    /\ \A i \in RecordsUpTo(Len(enq)) : Cardinality(LogsOf(enq[i])) <= 1
    /\ wpc = "done" =>
        \A i \in RecordsUpTo(closeSnap) : Cardinality(LogsOf(enq[i])) = 1

\* A Log call is blocked on a full channel while the worker is running, after
\* the downstream sink has already received a record.
C5_Witness ==
    \E p \in Producers :
        /\ pc[p] = "Log"
        /\ Len(queue) = QueueSize
        /\ wpc # "done"
        /\ LogCalls # <<>>

\* C6 (no I/O after Close): once a Close call has returned, the worker has
\* terminated and stays so, and the downstream sink receives no further call.
C6_QuietAfterClose ==
    [][closeRet => (wpc = "done" /\ wpc' = "done" /\ down' = down)]_vars

\* Close has returned, an entry was sent to the channel afterwards, and the
\* ticker had not yet delivered all its ticks.
C6_Witness ==
    /\ closeRet
    /\ ticks < MaxTicks
    /\ \E p \in Producers : afterClose[p] /\ pc[p] = "idle" /\ queue # <<>>

\* ------------------------------------------------------------------------
\* Properties of the FileWriter
\* ------------------------------------------------------------------------
\* The last call was a Log that wrote its record.
LoggedRecord == last.op = "Log" /\ last.wrote

\* C7 (size invariant): immediately after a Log call that wrote a record,
\* the size counter fileSize is at most maxFileSize.
C7_SizeWithinMax == LoggedRecord => fileSize <= MaxFileSize

\* C8 (rotation trigger): a Log call that wrote a record rotated before
\* writing exactly when the bytes counted so far plus the formatted length
\* of the record exceed maxFileSize: the write that crosses maxFileSize is
\* preceded by a rotation, and no rotation happens earlier than that.
C8_RotationTrigger ==
    LoggedRecord =>
        (last.rotated <=>
            last.sizeAtTest + FormattedLen(last.level, last.len) > MaxFileSize)

\* The content of file n before the rotation of the last call is in no file
\* after it.
Discarded(n) ==
    /\ last.before[n] # NoFile
    /\ last.before[n] # <<>>
    /\ \A m \in FileNums : last.after[m] # last.before[n]

\* C9 (generation cap): no file beyond prefix.(maxLogFiles-1).log exists;
\* after a rotation every backup i holds what backup i held or what file i-1
\* held before it (files only move from i-1 to i), and the only content a
\* rotation discards is that of the highest-numbered backup.
C9_GenerationCap ==
    /\ files[maxLogFiles] = NoFile
    /\ last.rotated =>
        /\ \A i \in 1..(maxLogFiles - 1) :
            last.after[i] \in {last.before[i], last.before[i - 1]}
        /\ \A n \in FileNums : Discarded(n) => n = maxLogFiles - 1

\* C10 (open failure): a Log call whose lazy open fails leaves the writer
\* Closed (fp and fileWriter nil), the size counter, the buffer and the files
\* as they were, and writes nothing; and fp is never non-nil with a nil
\* fileWriter, so that no later call dereferences a nil writer.
C10_OpenFailureDrops ==
    /\ [](fp => fileWriter)
    /\ [][(last'.op = "Log" /\ last'.openFailed) =>
            /\ ~fp /\ ~fp' /\ ~fileWriter'
            /\ fileSize' = fileSize
            /\ files' = files
            /\ wbuf' = wbuf
            /\ ~last'.wrote]_vars

\* A lazy open has failed in a writer whose size counter was not zero.
C10_Witness == last.op = "Log" /\ last.openFailed /\ fileSize > 0

\* C11 (reopen failure): once the reopen after a rotation has failed, every
\* later Log call is a no-op: it makes no open attempt and writes nothing,
\* whether or not the file could be opened again.
C11_ReopenFailureIsFinal ==
    [][(hist.reopenFailed /\ last'.op = "Log" /\ nlogs' > nlogs) =>
            /\ ~last'.opened /\ ~last'.openFailed /\ ~last'.wrote
            /\ ~fp' /\ files' = files]_vars

\* C12 (Close is permanent): after Close the writer stays Closed: no later
\* Log or Flush call reopens the file or writes to it.
C12_ClosePermanent ==
    hist.closed =>
        /\ ~fp /\ ~fileWriter
        /\ ~(last.op = "Log" /\ (last.opened \/ last.wrote))

\* ------------------------------------------------------------------------
\* Properties of the LogFormatter and the ConsoleWriter
\* ------------------------------------------------------------------------
\* The dest.Log calls that Debugf .. Errorf made.
FormatCalls == {i \in DOMAIN destLog : destLog[i].via = "format"}

\* C18 (serialization): the sink receives the records of Debugf .. Errorf in
\* the order their timestamps were taken: timestamps never decrease in sink
\* order.
C18_TimestampOrder ==
    \A i, j \in FormatCalls : i < j => destLog[i].now <= destLog[j].now

\* C19 (hot-path filter): dest.Log is called by Debugf .. Errorf only at a
\* level for which dest.IsEnabled is true, and a call that found its level
\* disabled reaches neither dest.Log nor the console.
C19_DisabledNeverLogged ==
    /\ \A i \in FormatCalls : ConsoleIsEnabled(destLog[i].level)
    /\ \A i \in DOMAIN destLog : destLog[i].id \notin skipped
    /\ \A i \in DOMAIN console : console[i].id \notin skipped

\* A format call has returned at the level test while the sink has received
\* a record of another call.
C19_Witness == skipped # {} /\ destLog # <<>>

\* The lines ConsoleWriter.Log prints for the calls cs, in order.
RECURSIVE PrintedOf(_)
PrintedOf(cs) ==
    IF cs = <<>> THEN <<>>
    ELSE LET c == cs[Len(cs)]
             rest == PrintedOf(SubSeq(cs, 1, Len(cs) - 1))
         IN  IF c.level >= minLevel
             THEN Append(rest, [when |-> c.now, level |-> c.level, id |-> c.id])
             ELSE rest

\* C20 (level filtering): IsEnabled(L) is true iff L >= minLevel, and the
\* console holds one line for each Log call at a level L >= minLevel, in call
\* order, and nothing for a call below minLevel.
C20_ConsoleFilter ==
    /\ \A a \in answers : a.r <=> (a.level >= minLevel)
    /\ console = PrintedOf(destLog)

\* The ConsoleWriter has printed a record at its minimum level and has
\* dropped a record below it, and has answered IsEnabled both ways.
C20_Witness ==
    /\ \E i \in DOMAIN console : console[i].level = minLevel
    /\ \E i \in DOMAIN destLog : destLog[i].level < minLevel
    /\ \E a, b \in answers : a.r /\ ~b.r

\* ------------------------------------------------------------------------
\* Properties of the default logger
\* ------------------------------------------------------------------------
\* Record id is in the file of logger l.
Written(l, id) == \E k \in DOMAIN loggers[l].written : loggers[l].written[k] = id

\* Logger l has been flushed and closed: its channel is empty and its worker
\* has closed the FileWriter and terminated.
ClosedChain(l) == loggers[l].queue = <<>> /\ ~loggers[l].running

\* C13 (Fatalf durability): when a Fatalf call exits the process, the record
\* it passed to a logger with a file sink is in that logger's file and the
\* sink chain of that logger has been flushed and closed.
C13_FatalDurable ==
    exited # 0 =>
        (LoggerIsEnabled(gop[exited].l) =>
            Written(gop[exited].l, gop[exited].rec) /\ ClosedChain(gop[exited].l))

\* C14 (in-flight safety): no record of Debugf .. Errorf is ever in the
\* channel of a BufferedSink whose worker has terminated.
C14_NoSendToDeadSink ==
    \A i \in Loggers :
        ~loggers[i].running =>
            \A k \in DOMAIN loggers[i].queue : loggers[i].queue[k].op # "Logf"

\* The goroutines that have got a logger for the call they are inside.
Holding == {g \in Goroutines : gpc[g] \in {"enabled", "lock", "send"}}

\* C15 (post-shutdown safety): when the last replacement was a Close, the
\* default logger wraps a NopSink; a call that got its logger then has a
\* NopSink logger; IsDebugEnabled is false on a NopSink logger; a NopSink
\* logger delivers nothing; and no logger with a real sink is closed twice.
C15_NopAfterClose ==
    /\ gshut => loggers[gDefaultLogger].kind = "nop"
    /\ \A g \in Holding : gop[g].shut => ~LoggerIsEnabled(gop[g].l)
    /\ \A a \in debugAnswers : loggers[a.l].kind = "nop" => ~a.r
    /\ \A i \in Loggers :
        /\ loggers[i].kind = "nop" =>
              loggers[i].queue = <<>> /\ loggers[i].written = <<>>
        /\ loggers[i].kind = "file" => loggers[i].closes <= 1

\* After a Close that closed a file logger, IsDebugEnabled has answered on
\* the NopSink logger that Close installed, and a further Close has closed
\* that logger and returned.
C15_Witness ==
    /\ gshut
    /\ gDefaultLoggerGuard = 0
    /\ \E i \in Loggers :
        /\ loggers[i].kind = "file" /\ loggers[i].closes = 1
        /\ loggers[i + 1].kind = "nop" /\ loggers[i + 1].closes = 1
        /\ [l |-> i + 1, r |-> FALSE] \in debugAnswers

\* C16 (atomic replacement): whenever the guard is free the default logger
\* has not begun to close and every earlier instance has been closed and, if
\* it has a BufferedSink, drained; so the logger GetDefaultLogger returns has
\* not begun to close at the time of the return.
C16_AtomicReplacement ==
    /\ gDefaultLoggerGuard = 0 =>
        /\ loggers[gDefaultLogger].closes = 0
        /\ \A i \in 1..nloggers :
              i # gDefaultLogger =>
                  loggers[i].closes = 1 /\ ~loggers[i].running
    /\ \A g \in Holding : gop[g].live

\* A goroutine has got the file logger that an Enable* installed in place
\* of another file logger, and a third replacement is now closing it.
C16_Witness ==
    /\ nloggers >= 3
    /\ loggers[nloggers - 1].kind = "file"
    /\ loggers[gDefaultLogger].kind = "file"
    /\ loggers[gDefaultLogger].closes = 1
    /\ \E g \in Holding : gop[g].l = gDefaultLogger

\* C17 (the guard covers only the swap): while gDefaultLoggerGuard is held,
\* its holder is not closing or draining a logger with a real sink.
C17_GuardOnlySwap ==
    \A g \in Goroutines :
        (gDefaultLoggerGuard = g /\ gpc[g] \in {"cl_send", "cl_wait"}) =>
            loggers[gDefaultLogger].kind # "file"

\* ------------------------------------------------------------------------
\* Properties of the MultiWriter
\* ------------------------------------------------------------------------
\* The MultiWriter calls Log, Flush and Close that have returned.
Forwarded == Len(childLog) \div 2

\* C21 (forwarding): the children's call log is, for each Log, Flush or Close
\* call in turn, that call on the first child followed by the same call on
\* the second child, once each, whether or not the first child's I/O failed.
C21_ForwardsToBoth ==
    /\ \A i \in DOMAIN childLog :
        /\ childLog[i].child = IF i % 2 = 1 THEN 1 ELSE 2
        /\ i % 2 = 0 =>
              /\ childLog[i].id = childLog[i - 1].id
              /\ childLog[i].op = childLog[i - 1].op
              /\ childLog[i].level = childLog[i - 1].level
        /\ (i % 2 = 1 /\ i > 2) => childLog[i].id > childLog[i - 2].id
    /\ mpc = "idle" =>
        /\ Len(childLog) % 2 = 0
        /\ Forwarded + Cardinality(manswers) <= mcalls
        /\ (manswers = {} => Forwarded = mcalls)

\* A call whose first child failed has been forwarded to the second child
\* and has returned.
C21_Witness ==
    /\ mpc = "idle"
    /\ \E i \in DOMAIN childLog :
        /\ childLog[i].child = 1 /\ childLog[i].failed
        /\ i + 1 \in DOMAIN childLog /\ childLog[i + 1].child = 2

\* C22 (enabled is the OR of the children): IsEnabled(level) is false
\* exactly when both children report the level disabled.
C22_EnabledIsOr ==
    \A a \in manswers :
        ~a.r <=> (~ChildIsEnabled(first, a.level) /\ ~ChildIsEnabled(second, a.level))

\* IsEnabled has answered true for a level that only the second child
\* enables, and false for another level.
C22_Witness ==
    \E a, b \in manswers :
        /\ a.r /\ ~ChildIsEnabled(first, a.level)
        /\ ~b.r

\* ------------------------------------------------------------------------
\* Further properties of the BufferedSink
\* ------------------------------------------------------------------------
\* C23 (single worker): every step that calls the downstream sink is a step
\* of the worker goroutine (it is handling an entry, or its ticker fired in
\* its select), makes exactly one downstream call, and is no step of a
\* producer inside Log, Flush or Close.
C23_OnlyWorkerCallsDownstream ==
    [][down' # down =>
          /\ pc' = pc /\ arg' = arg
          /\ Len(down') = Len(down) + 1
          /\ \/ wpc = "handle"
             \/ wpc = "select" /\ ticks' = ticks + 1]_vars

\* The downstream sink has received a Log, a Flush that a producer asked
\* for, and the Close, while a producer is still inside a call.
C23_Witness ==
    /\ \E i, j \in DOMAIN down : down[i].op = "Log" /\ down[j].op = "Close"
    /\ acked # {}
    /\ \E p \in Producers : pc[p] # "idle"

\* The entries the worker has finished handling.
Handled == Len(enq) - Len(queue) - (IF wpc = "handle" THEN 1 ELSE 0)

\* C24 (records are never sentinels): every entry that came from the public
\* Log method (it carries a message) and that the worker has handled was
\* forwarded to downstream.Log, and the worker has terminated only on the
\* entry of a Close call.
C24_RecordsAreNotSentinels ==
    /\ \A k \in 1..Handled :
          enq[k].message # 0 => \E i \in DOMAIN down : down[i] = DownLog(enq[k])
    /\ wpc = "done" => line.message = 0

\* C28 (flush sentinel): handling a flush sentinel is one downstream.Flush,
\* the close of that sentinel's own, still open, ack channel and of no
\* other, and a return to the select with the worker still running; and a
\* Flush call returns only when its own ack channel has been closed.
C28_FlushSentinel ==
    [][/\ (wpc = "handle" /\ line.level = flushLevel /\ wpc' # wpc) =>
            /\ down' = Append(down, DownFlush)
            /\ line.ack \notin acked
            /\ acked' = acked \cup {line.ack}
            /\ wpc' = "select" /\ wg' = wg
       /\ \A p \in Producers :
            (pc[p] = "FlushWait" /\ pc'[p] = "idle") => arg[p].ack \in acked]_vars

\* One Flush call has returned while another still waits for its own ack,
\* and a record was delivered after a flush.
C28_Witness ==
    /\ acked # {}
    /\ \E p \in Producers : pc[p] = "FlushWait" /\ arg[p].ack \notin acked
    /\ \E i, j \in DOMAIN down : i < j /\ down[i].op = "Flush" /\ down[j].op = "Log"

\* ------------------------------------------------------------------------
\* Further properties of the FileWriter
\* ------------------------------------------------------------------------
\* The lines of prefix.log, those still in the bufio.Writer included.
ActiveLines == (IF files[0] = NoFile THEN <<>> ELSE files[0]) \o wbuf

\* C25 (session separator): after a Log call that rotated (no rename
\* failing) and wrote its record, the new prefix.log starts with the session
\* marker line, written before the record.
C25_MarkerAfterRotation ==
    (last.op = "Log" /\ last.rotated /\ ~last.renameFailed /\ last.wrote) =>
        (ActiveLines # <<>> /\ ActiveLines[1].kind = "start")

\* C29 (rename failure): once a rename of an existing file has failed in a
\* rotation the writer is inert: that rotation truncates nothing, the writer
\* is Closed, and neither that Log call nor a later one writes.
C29_RenameFailureInert ==
    hist.renameFailed =>
        /\ ~fp
        /\ ~(last.op = "Log" /\ last.wrote)
        /\ (last.op = "Log" /\ last.renameFailed) => last.after = last.before

\* The content of prefix.log when a call begins (nothing when it is missing).
Existing == IF files[0] = NoFile THEN <<>> ELSE files[0]

\* The marker line and the record line of the call now being made.
StartLine == FileLine("start", nlogs + 1, FormattedLen(Audit, StartMessageLen))
RecordLine(level, len) == FileLine("rec", nlogs + 1, FormattedLen(level, len))

\* What a Log call that opens prefix.log does to it: the existing content is
\* kept, the marker line follows it, and the record follows the marker (in
\* the same file, or alone in the new file after a rotation).
OpensAppending ==
    (nlogs' > nlogs /\ last'.op = "Log" /\ last'.opened) =>
        /\ ~fp
        /\ IF last'.rotated
           THEN last'.before[0] = Existing \o <<StartLine>>
           ELSE (files'[0] \o wbuf') =
                    Existing \o <<StartLine, RecordLine(last'.level, last'.len)>>

\* Only Log opens the file.
OnlyLogOpens == (~fp /\ fp') => last'.op = "Log"

HandoffCanStep == (ipc \in {"handoff", "evict"}) => ENABLED (InputTrySend \/ InputEvict)

\* C26 as stated: a send that finds the console queue full is followed by
\* the eviction of exactly one entry, the oldest buffered one, and then the
\* new line is enqueued.
C26_EvictsExactlyOne ==
    [][(ipc = "evict" /\ ipc' = "handoff")
         => (consoleQueue # <<>> /\ consoleQueue' = Tail(consoleQueue) /\ nevict' = 1)]_vars

\* C26: after a send that finds the console queue full the input worker
\* evicts the oldest buffered entry, or nothing when the console goroutine
\* has emptied the queue in the meantime; the send that follows enqueues
\* the new line, so at most one entry is evicted per line; and the worker
\* can always take its next step of the hand-off.
C26_DropOldest ==
    /\ [][/\ (ipc = "evict" /\ ipc' = "handoff")
             => /\ consoleQueue' = IF consoleQueue = <<>> THEN <<>> ELSE Tail(consoleQueue)
                /\ dropped' = IF consoleQueue = <<>> THEN dropped
                              ELSE Append(dropped, Head(consoleQueue).id)
                /\ nevict' <= 1
                /\ Len(consoleQueue') < ConsoleQueueSize
          /\ (ipc = "handoff" /\ nevict >= 1 /\ ipc' # "handoff")
             => (ipc' = "after" /\ consoleQueue' = Append(consoleQueue, iline))
          /\ (ipc = "handoff" /\ ipc' = "evict")
             => Len(consoleQueue) = ConsoleQueueSize]_vars
    /\ []HandoffCanStep

\* A line was enqueued on the console queue after the oldest entry had been
\* evicted for it.
C26_Witness ==
    /\ ipc = "after"
    /\ nevict = 1
    /\ dropped # <<>>
    /\ consoleQueue # <<>>
    /\ consoleQueue[Len(consoleQueue)] = iline
    /\ \A i \in DOMAIN consoleQueue : consoleQueue[i].id # dropped[Len(dropped)]

\* C27: the message buffer of a line handed to the console queue is neither
\* reset, put back into the pool nor written again before the console
\* goroutine has rendered the line, so every line is printed with its own
\* message.
C27_BufferOwnedUntilRendered ==
    /\ \A i \in DOMAIN consoleQueue :
         consoleQueue[i].level # lineCloseLevel
           => /\ bufs[consoleQueue[i].buf] = <<consoleQueue[i].id>>
              /\ consoleQueue[i].buf \notin pool
    /\ \A i \in DOMAIN shown : shown[i].text = <<shown[i].id>>


\* ------------------------------------------------------------------------
\* Flush of a BufferedSink that has been closed
\* ------------------------------------------------------------------------
\* C35 (Flush after Close): a Flush call invoked after Close has returned
\* is never left waiting for an acknowledgment that nothing can send: once
\* the worker has returned, no goroutine closes the ack channel of the call
\* (and none receives its entry), so such a call never returns.
C35_FlushAfterCloseReturns ==
    \A p \in Producers :
        ~(/\ afterClose[p]
          /\ pc[p] \in {"FlushSend", "FlushWait"}
          /\ wpc = "done"
          /\ ~AckReady(p))

\* ------------------------------------------------------------------------
\* Content across a rotation of the FileWriter
\* ------------------------------------------------------------------------
\* A Log call rotates, every rename of an existing file succeeds and the
\* reopen succeeds.
RotatesCleanly == last'.op = "Log" /\ last'.rotated /\ ~last'.renameFailed /\ fp'

\* C36: when a Log call rotates and the renames and the reopen succeed,
\* file 1 holds afterwards exactly the lines of the active file before the
\* call, buffered ones included (and the Start line if this call opened the
\* file), and the new active file holds the record of the call and nothing
\* else.
C36_RotationKeepsContent ==
    [][RotatesCleanly
         => /\ files'[1] = IF fp THEN ActiveLines ELSE Existing \o <<StartLine>>
            /\ files'[0] = <<>>
            /\ wbuf' = <<RecordLine(last'.level, last'.len)>>
            /\ fileWriter']_vars

\* A rotation has moved a record into file 1 and the record that triggered
\* it is in the new active file.
C36_Witness ==
    /\ last.op = "Log" /\ last.rotated /\ ~last.renameFailed /\ fp
    /\ \E i \in DOMAIN files[1] : files[1][i].kind = "rec"
    /\ \E i \in DOMAIN wbuf : wbuf[i].kind = "rec" /\ wbuf[i].id = nlogs

\* ------------------------------------------------------------------------
\* The file of the two-queue Logger under console saturation
\* ------------------------------------------------------------------------
RECURSIVE IdsOf(_)
\* The call identities of a sequence of lines.
IdsOf(lines) == IF lines = <<>> THEN <<>> ELSE <<Head(lines).id>> \o IdsOf(Tail(lines))

\* The lines sent on inputQueue before the close line.
SentBeforeClose ==
    IF \E i \in DOMAIN sentLines : sentLines[i].level = lineCloseLevel
    THEN SubSeq(sentLines, 1,
                (CHOOSE i \in DOMAIN sentLines : sentLines[i].level = lineCloseLevel) - 1)
    ELSE sentLines

\* The lines sent before the close line whose level reaches the file.
FileBound == SelectSeq(SentBeforeClose, LAMBDA l : l.level >= LowerLevelToFile)

\* The input worker has terminated.
InputDone == ipc = "done"

Replacing ==
    /\ gDefaultLoggerGuard # 0
    /\ gpc[gDefaultLoggerGuard] \in {"cl_send", "cl_wait", "install"}

C32_LevelThresholds ==
    /\ \A i \in DOMAIN oFile : oFile[i].level >= opt.LowerLevelToFile
    /\ \A i \in DOMAIN oShown : oShown[i].level >= opt.LowerLevelToConsole
    /\ \A i \in DOMAIN oSent :
         \/ oSent[i].level = lineCloseLevel
         \/ oSent[i].level >= opt.LowerLevelToFile
         \/ oSent[i].level >= opt.LowerLevelToConsole

\* C33 (teardown of the original global logger): a logging call made after
\* the package-level Close has returned does not fault.
C33_SafeAfterClose == oLate > 0 => ~panicked

\* C38 (Close of the original Logger terminates): while Close waits for
\* the workers, the input worker is never in a hand-off to a console queue
\* that does not exist; in that loop neither the send nor the eviction is
\* ever ready, so the worker never leaves it and Close never returns.
C38_CloseTerminates ==
    apc = "closeWait" => ~(oConsoleNil /\ owpc \in {"handoff", "evict"})

\* ------------------------------------------------------------------------
\* Consistency of ChangeDefaults
\* ------------------------------------------------------------------------
\* C39: when no ChangeDefaults call is in progress, the options of the
\* installed default logger are those of gDefaultOptions (with the prefix
\* New fills in when none is set).
C39_DefaultsConsistent ==
    (\A g \in Changers : dpc[g] = "idle") => dOptions = withPrefix(gDefaultOptions)

\* ------------------------------------------------------------------------
\* Properties of the pipeline
\* ------------------------------------------------------------------------
\* The step is a tick of the worker's ticker.
TickStep == ticks' # ticks

\* The step is a Flush call on the FileWriter.
FileFlushStep == nlogs' # nlogs /\ last'.op = "Flush"

\* C31 (timer tick): a tick makes the worker call downstream.Flush once and
\* nothing else: the channel, the entry in the worker's hands, the position
\* of the worker and the acknowledgments stay as they are. A Flush on a
\* FileWriter that is not open changes neither its handle, its size counter,
\* its buffer nor the files; on an open one it moves the buffered lines to
\* the file and changes nothing else.
C31_TickOnlyFlushes ==
    [][/\ TickStep => /\ down' = Append(down, DownFlush)
                      /\ FileFlushStep
                      /\ UNCHANGED <<queue, enq, line, wpc, wg, acked, pc, arg>>
       /\ FileFlushStep
            => /\ UNCHANGED <<fp, fileWriter, fileSize>>
               /\ IF fileWriter
                  THEN files' = [files EXCEPT ![0] = ActiveLines] /\ wbuf' = <<>>
                  ELSE UNCHANGED <<files, wbuf>>]_vars

\* A tick has flushed a FileWriter that is not open while an entry was
\* waiting in the channel, and the entry is still there.
C31_Witness ==
    /\ ticks > 0
    /\ last.op = "Flush"
    /\ down # <<>> /\ down[Len(down)] = DownFlush
    /\ ~fileWriter /\ ~fp
    /\ queue # <<>>
    /\ \A i \in DOMAIN queue : queue[i].level # flushLevel

\* C34 (no deadlock in the pipeline): every LogFormatter call that has been
\* made eventually returns, when the worker and the producers are scheduled
\* fairly and Close is called once, after the other calls have returned.
C34_EveryCallReturns ==
    \A p \in Producers : (ppc[p] # "idle") ~> (ppc[p] = "idle")

\* A producer is blocked inside Log on a full channel while it holds the
\* mutex of the LogFormatter, and the other producer waits for the mutex.
C34_Witness ==
    \E p, q \in Producers :
        /\ p # q
        /\ ppc[p] = "in" /\ pc[p] = "Log" /\ mut = p
        /\ ~CanSend
        /\ ppc[q] \in {"enabled", "lock"}

====
